---- MODULE Spec2Model ----
(***************************************************************************)
(* Shule Track REST API (Express + PostgreSQL server): the relational     *)
(* store and the request handlers that write it.  Every handler is one    *)
(* action; a request that is answered with an error leaves the tables     *)
(* alone and only records its response.                                   *)
(*                                                                         *)
(* Encoding.  SQL NULL is the string "null" for text/boolean columns and  *)
(* 0 for uuid columns (ids are positive).  Times of day are integers; the *)
(* empty string sent for a time is NoTime.  uuid primary keys are drawn   *)
(* from counters, which never hand out an id twice.                       *)
(***************************************************************************)
EXTENDS Integers, Sequences, FiniteSets, TLC

VARIABLES classes, students, subjects, attendance, marks,
          timetable_lessons, timetable_history,
          nextLessonId, nextHistoryId, resp,
          grade_settings, exam_types, nextExamTypeId,
          examTypesRead, now, pending,
          token, teacher, loading

vars == <<classes, students, subjects, attendance, marks,
          timetable_lessons, timetable_history,
          nextLessonId, nextHistoryId, resp,
          grade_settings, exam_types, nextExamTypeId,
          examTypesRead, now, pending,
          token, teacher, loading>>

\* examTypesRead: the teachers whose GET /api/exam-types has been answered
\* now: the clock of the database and of the browser, in instants since the
\* first instant of a Monday
\* pending: the requests a handler has begun and not yet answered, each with
\* what the handler has read so far
\* token: the item shule_token of the tab's sessionStorage
\* teacher, loading: the state of AuthProvider
\* the state of the browser session
sessionVars == <<token, teacher, loading>>

\* the state outside the tables
restVars == <<examTypesRead, now, pending, sessionVars>>

(* ----------------------------- bounds --------------------------------- *)
\* lessons ever inserted (create + compensate)
MaxLessons == 2
\* history rows ever inserted
MaxHistory == 2
\* latest time of day
MaxTime == 2
\* records in one attendance-save or marks-save request
MaxBatch == 2
\* exam types ever inserted
MaxExamTypes == 5
\* instants of the clock in one day
TicksPerDay == 2
\* requests in flight at once
MaxPending == 2

(* ------------------------- values and fixture ------------------------- *)
NULL == "null"
NoId == 0
NoTime == -1

Teachers == {"t1", "t2"}
\* classes 1 and 2 belong to t1, class 3 to t2
ClassIds == {1, 2, 3}
InitClasses == {[id |-> 1, teacher_id |-> "t1"],
                [id |-> 2, teacher_id |-> "t1"],
                [id |-> 3, teacher_id |-> "t2"]}
\* students 1 and 3 are in class 1 (t1), student 2 in class 3 (t2); the saves
\* name student 1 or 2
StudentIds == {1, 2}
InitStudents == {[id |-> 1, class_id |-> 1], [id |-> 2, class_id |-> 3],
                 [id |-> 3, class_id |-> 1]}
\* subject 1 is in class 1 (t1), subject 2 in class 3 (t2)
SubjectIds == {1, 2}
InitSubjects == {[id |-> 1, class_id |-> 1], [id |-> 2, class_id |-> 3]}

\* the day_of_week check constraint
ValidDays == {"Monday", "Tuesday", "Wednesday", "Thursday", "Friday", "Saturday"}
Times == 0..MaxTime

(* ----------------------------- helpers -------------------------------- *)
\* select 1 from classes where id = $1 and teacher_id = $2
classOk(classId, teacherId) ==
    \E c \in classes : c.id = classId /\ c.teacher_id = teacherId

\* class_id in (select id from classes where teacher_id = $2)
ClassesOf(teacherId) == {c.id : c \in {k \in classes : k.teacher_id = teacherId}}

\* select t.* from timetable_lessons t join classes c ... where t.id = $1 and c.teacher_id = $2
OwnedLessons(id, teacherId) ==
    {l \in timetable_lessons : l.id = id /\ l.class_id \in ClassesOf(teacherId)}

\* not (t.end_time <= $4::time or t.start_time >= $5::time)
SqlOverlap(tStart, tEnd, startTime, endTime) ==
    ~(tEnd <= startTime \/ tStart >= endTime)

findTimetableCollision_closed(teacherId, dayOfWeek, startTime, endTime, excludeLessonId) ==
    {l \in timetable_lessons :
        /\ l.class_id \in ClassesOf(teacherId)
        /\ l.day_of_week = dayOfWeek
        /\ (excludeLessonId = NoId \/ l.id # excludeLessonId)
        /\ ~(l.end_time < startTime \/ l.start_time > endTime)}

\* the rows the collision scan matches (the handler only asks whether there is one)
findTimetableCollision(teacherId, dayOfWeek, startTime, endTime, excludeLessonId) ==
    {l \in timetable_lessons :
        /\ l.class_id \in ClassesOf(teacherId)
        /\ l.day_of_week = dayOfWeek
        /\ (excludeLessonId = NoId \/ l.id # excludeLessonId)
        /\ SqlOverlap(l.start_time, l.end_time, startTime, endTime)}

\* unique index timetable_lessons_unique_slot_idx (class_id, day_of_week, start_time, end_time)
SlotTaken(classId, day, startTime, endTime, exceptId) ==
    \E l \in timetable_lessons :
        /\ l.id # exceptId
        /\ l.class_id = classId /\ l.day_of_week = day
        /\ l.start_time = startTime /\ l.end_time = endTime

\* subject_id uuid references subjects(id): null or an existing subject
SubjectFkOk(subjectId) == subjectId = NoId \/ \E s \in subjects : s.id = subjectId

\* a response body the properties do not read ({ ok: true }, an error, a row)
NoBody == [kind |-> "none"]

\* res.status(status).json(...) of the handler `op`, for the request of the
\* teacher the bearer token names (req.user.id)
Respond(op, teacherId, status) ==
    resp' = [op |-> op, teacher |-> teacherId, status |-> status, body |-> NoBody]

\* res.json(body) of a handler whose answer the properties read
RespondWith(op, teacherId, status, body) ==
    resp' = [op |-> op, teacher |-> teacherId, status |-> status, body |-> body]

Init ==
    /\ classes = InitClasses
    /\ students = InitStudents
    /\ subjects = InitSubjects
    /\ attendance = {}
    /\ marks = {}
    /\ timetable_lessons = {}
    /\ timetable_history = {}
    /\ nextLessonId = 1
    /\ nextHistoryId = 1
    /\ resp = [op |-> "none", teacher |-> "t1", status |-> 0, body |-> NoBody]
    /\ grade_settings = {}
    /\ exam_types = {}
    /\ nextExamTypeId = 1
    /\ examTypesRead = {}
    /\ now = 0
    /\ pending = {}
    /\ token = NULL
    /\ teacher = NULL
    /\ loading = TRUE

NewLesson(id, classId, subjectId, day, startTime, endTime, reason, compFor) ==
    [id |-> id, class_id |-> classId, subject_id |-> subjectId,
     day_of_week |-> day, start_time |-> startTime, end_time |-> endTime,
     attended |-> NULL, reason |-> reason, compensated |-> FALSE,
     compensation_note |-> NULL, compensation_date |-> NULL,
     compensation_for_lesson_id |-> compFor]

\* the lesson row a handler selected by id (ids are unique)
TheLesson(id, teacherId) == CHOOSE l \in OwnedLessons(id, teacherId) : TRUE

\* BEGIN ... COMMIT, or ROLLBACK when a statement failed: `run` is the outcome
\* of the statements ([ok, rows]), `before` the table when the transaction began
Transaction_noRollback(run, before) == run.rows

Transaction(run, before) == IF run.ok THEN run.rows ELSE before

(* ------------------ POST /api/classes/:classId/timetable -------------- *)
CreateLessonStatus(teacherId, classId, subjectId, day, startTime, endTime) ==
    IF ~classOk(classId, teacherId) THEN 404
    ELSE IF startTime = NoTime \/ endTime = NoTime THEN 500
    ELSE IF findTimetableCollision(teacherId, day, startTime, endTime, NoId) # {} THEN 409
    ELSE IF day \notin ValidDays \/ ~SubjectFkOk(subjectId) THEN 500
    ELSE IF SlotTaken(classId, day, startTime, endTime, NoId) THEN 409
    ELSE 200

CreateLesson(teacherId, classId, subjectId, day, startTime, endTime) ==
    LET status == CreateLessonStatus(teacherId, classId, subjectId, day, startTime, endTime)
    IN  /\ Respond("createLesson", teacherId, status)
        /\ IF status = 200
             THEN /\ timetable_lessons' = timetable_lessons \cup
                        {NewLesson(nextLessonId, classId, subjectId, day, startTime, endTime, NULL, NoId)}
                  /\ nextLessonId' = nextLessonId + 1
             ELSE UNCHANGED <<timetable_lessons, nextLessonId>>
        /\ UNCHANGED <<classes, students, subjects, attendance, marks,
                       timetable_history, nextHistoryId,
                   grade_settings, exam_types, nextExamTypeId,
                   restVars>>

(* ------------------------ PUT /api/timetable/:id ---------------------- *)
UpdateLessonStatus_noExclude(teacherId, id, subjectId, day, startTime, endTime) ==
    IF OwnedLessons(id, teacherId) = {} THEN 404
    ELSE IF day = "" \/ startTime = NoTime \/ endTime = NoTime THEN 400
    ELSE IF findTimetableCollision(teacherId, day, startTime, endTime, NoId) # {} THEN 409
    ELSE IF \/ day \notin ValidDays
            \/ ~SubjectFkOk(subjectId)
            \/ SlotTaken(TheLesson(id, teacherId).class_id, day, startTime, endTime, id) THEN 500
    ELSE 200

UpdateLessonStatus(teacherId, id, subjectId, day, startTime, endTime) ==
    IF OwnedLessons(id, teacherId) = {} THEN 404
    ELSE IF day = "" \/ startTime = NoTime \/ endTime = NoTime THEN 400
    ELSE IF findTimetableCollision(teacherId, day, startTime, endTime, id) # {} THEN 409
    ELSE IF \/ day \notin ValidDays
            \/ ~SubjectFkOk(subjectId)
            \/ SlotTaken(TheLesson(id, teacherId).class_id, day, startTime, endTime, id) THEN 500
    ELSE 200

\* timetable_lessons after the request: update ... where id = $5
UpdateLessonRows(teacherId, id, subjectId, day, startTime, endTime) ==
    IF UpdateLessonStatus(teacherId, id, subjectId, day, startTime, endTime) = 200
      THEN {IF l.id = id
              THEN [l EXCEPT !.subject_id = subjectId, !.day_of_week = day,
                             !.start_time = startTime, !.end_time = endTime]
              ELSE l : l \in timetable_lessons}
      ELSE timetable_lessons

UpdateLesson(teacherId, id, subjectId, day, startTime, endTime) ==
    LET status == UpdateLessonStatus(teacherId, id, subjectId, day, startTime, endTime)
    IN  /\ Respond("updateLesson", teacherId, status)
        /\ timetable_lessons' = UpdateLessonRows(teacherId, id, subjectId, day, startTime, endTime)
        /\ UNCHANGED <<classes, students, subjects, attendance, marks,
                       timetable_history, nextLessonId, nextHistoryId,
                   grade_settings, exam_types, nextExamTypeId,
                   restVars>>

(* ----------------------- PATCH /api/timetable/:id --------------------- *)
\* attended === null ? null : Boolean(attended), for a body value that is
\* true, false, null, another truthy value ("truthy") or a falsy one ("falsy")
StoredAttended(attended) ==
    IF attended = NULL THEN NULL
    ELSE IF attended \in {"true", "truthy"} THEN "true"
    ELSE "false"

\* String(reason || "").trim() || null
OrNull(text) == IF text = "" THEN NULL ELSE text

HistoryRow(id, lessonRow, attended, reason) ==
    [id |-> id, class_id |-> lessonRow.class_id, lesson_id |-> lessonRow.id,
     subject_id |-> lessonRow.subject_id, day_of_week |-> lessonRow.day_of_week,
     start_time |-> lessonRow.start_time, end_time |-> lessonRow.end_time,
     status |-> IF attended = "true" THEN "attended" ELSE "not_attended",
     reason |-> IF attended = "true" THEN NULL ELSE OrNull(reason),
     recorded_at |-> now]

LogsHistory_changeOnly(attended, lessonRow) ==
    attended \in {"true", "false"} /\ lessonRow.attended # attended

\* if (attended === true || attended === false)
LogsHistory(attended, lessonRow) == attended \in {"true", "false"}

PatchLessonStatus(teacherId, id) ==
    IF OwnedLessons(id, teacherId) = {} THEN 404 ELSE 200

\* update timetable_lessons set attended = $1, reason = $2 where id = $3 and class_id in (...)
PatchedLessons(teacherId, id, attended, reason) ==
    {IF l.id = id /\ l.class_id \in ClassesOf(teacherId)
       THEN [l EXCEPT !.attended = StoredAttended(attended), !.reason = OrNull(reason)]
       ELSE l : l \in timetable_lessons}

\* the history rows the transaction inserts
PatchHistoryRows(teacherId, id, attended, reason) ==
    IF LogsHistory(attended, TheLesson(id, teacherId))
      THEN {HistoryRow(nextHistoryId, TheLesson(id, teacherId), attended, reason)}
      ELSE {}

PatchLesson(teacherId, id, attended, reason) ==
    IF PatchLessonStatus(teacherId, id) = 404
      THEN /\ Respond("patchLesson", teacherId, 404)
           /\ UNCHANGED <<classes, students, subjects, attendance, marks,
                          timetable_lessons, timetable_history,
                          nextLessonId, nextHistoryId,
                   grade_settings, exam_types, nextExamTypeId,
                   restVars>>
      ELSE /\ Respond("patchLesson", teacherId, 200)
           /\ timetable_lessons' = PatchedLessons(teacherId, id, attended, reason)
           /\ timetable_history' = timetable_history \cup
                                     PatchHistoryRows(teacherId, id, attended, reason)
           /\ nextHistoryId' = nextHistoryId +
                                 Cardinality(PatchHistoryRows(teacherId, id, attended, reason))
           /\ UNCHANGED <<classes, students, subjects, attendance, marks, nextLessonId,
                   grade_settings, exam_types, nextExamTypeId,
                   restVars>>

(* ------------------ PATCH /api/timetable/:id/compensate --------------- *)
\* `Compensation slot for missed lesson #${lessonRow.id}[: ${compensation_note}]`
CompensationReason(lessonId, note) ==
    IF note = ""
      THEN "Compensation slot for missed lesson #" \o ToString(lessonId)
      ELSE "Compensation slot for missed lesson #" \o ToString(lessonId) \o ": " \o note

\* $2::date accepts null or a well-formed date
DateOk(date) == date # "bad"

CanCompensate_notAttendedOrUnset(lessonRow) == lessonRow.attended # "true"

\* the handler goes on only if lessonRow.attended === false
CanCompensate(lessonRow) == lessonRow.attended = "false"

\* the two statements of the transaction: the insert of the compensation
\* lesson, then the update of the original
CompensateRun(lessonRow, day, startTime, endTime, note, date) ==
    LET inserted == timetable_lessons \cup
                      {NewLesson(nextLessonId, lessonRow.class_id, lessonRow.subject_id,
                                 day, startTime, endTime,
                                 CompensationReason(lessonRow.id, note), lessonRow.id)}
        updated == {IF l.id = lessonRow.id
                      THEN [l EXCEPT !.compensated = TRUE,
                                     !.compensation_note = OrNull(note),
                                     !.compensation_date = OrNull(date)]
                      ELSE l : l \in inserted}
    IN  IF \/ day \notin ValidDays
           \/ SlotTaken(lessonRow.class_id, day, startTime, endTime, NoId)
          THEN [ok |-> FALSE, rows |-> timetable_lessons]
        ELSE IF ~DateOk(date) THEN [ok |-> FALSE, rows |-> inserted]
        ELSE [ok |-> TRUE, rows |-> updated]

CompensateStatus(teacherId, id, day, startTime, endTime, note, date) ==
    IF OwnedLessons(id, teacherId) = {} THEN 404
    ELSE IF ~CanCompensate(TheLesson(id, teacherId)) THEN 400
    ELSE IF day = "" \/ startTime = NoTime \/ endTime = NoTime THEN 400
    ELSE IF ~CompensateRun(TheLesson(id, teacherId), day, startTime, endTime, note, date).ok THEN 500
    ELSE 200

\* timetable_lessons after the request
CompensateRows(teacherId, id, day, startTime, endTime, note, date) ==
    IF CompensateStatus(teacherId, id, day, startTime, endTime, note, date) \in {404, 400}
      THEN timetable_lessons
      ELSE Transaction(CompensateRun(TheLesson(id, teacherId), day, startTime, endTime, note, date),
                       timetable_lessons)

Compensate(teacherId, id, day, startTime, endTime, note, date) ==
    LET status == CompensateStatus(teacherId, id, day, startTime, endTime, note, date)
    IN  /\ Respond("compensate", teacherId, status)
        /\ timetable_lessons' = CompensateRows(teacherId, id, day, startTime, endTime, note, date)
        /\ nextLessonId' = IF status = 200 THEN nextLessonId + 1 ELSE nextLessonId
        /\ UNCHANGED <<classes, students, subjects, attendance, marks,
                       timetable_history, nextHistoryId,
                   grade_settings, exam_types, nextExamTypeId,
                   restVars>>

(* ---------------------- cascading deletes (schema) -------------------- *)
\* timetable_lessons rows after deleting the lessons `gone` and the subjects
\* `goneSubjects`: subject_id and compensation_for_lesson_id are "on delete set null"
LessonsAfterDelete(gone, goneSubjects) ==
    {[l EXCEPT !.subject_id = IF @ \in goneSubjects THEN NoId ELSE @,
               !.compensation_for_lesson_id = IF @ \in gone THEN NoId ELSE @]
       : l \in {k \in timetable_lessons : k.id \notin gone}}

HistoryAfterDelete_cascadeLesson(goneClasses, gone, goneSubjects) ==
    {[h EXCEPT !.subject_id = IF @ \in goneSubjects THEN NoId ELSE @]
       : h \in {k \in timetable_history :
                  k.class_id \notin goneClasses /\ k.lesson_id \notin gone}}

\* timetable_history rows: class_id is "on delete cascade", lesson_id and
\* subject_id are "on delete set null"
HistoryAfterDelete(goneClasses, gone, goneSubjects) ==
    {[h EXCEPT !.lesson_id = IF @ \in gone THEN NoId ELSE @,
               !.subject_id = IF @ \in goneSubjects THEN NoId ELSE @]
       : h \in {k \in timetable_history : k.class_id \notin goneClasses}}

(* ---------------------- DELETE /api/timetable/:id --------------------- *)
DeleteLesson(teacherId, id) ==
    LET gone == {l.id : l \in OwnedLessons(id, teacherId)}
    IN  /\ Respond("deleteLesson", teacherId, 200)
        /\ timetable_lessons' = LessonsAfterDelete(gone, {})
        /\ timetable_history' = HistoryAfterDelete({}, gone, {})
        /\ UNCHANGED <<classes, students, subjects, attendance, marks,
                       nextLessonId, nextHistoryId,
                   grade_settings, exam_types, nextExamTypeId,
                   restVars>>

(* ---------------------- DELETE /api/subjects/:id ---------------------- *)
DeleteSubject(teacherId, id) ==
    LET goneSubjects == {s.id : s \in {k \in subjects :
                                         k.id = id /\ k.class_id \in ClassesOf(teacherId)}}
    IN  /\ Respond("deleteSubject", teacherId, 200)
        /\ subjects' = {s \in subjects : s.id \notin goneSubjects}
        /\ marks' = {m \in marks : m.subject_id \notin goneSubjects}
        /\ timetable_lessons' = LessonsAfterDelete({}, goneSubjects)
        /\ timetable_history' = HistoryAfterDelete({}, {}, goneSubjects)
        /\ UNCHANGED <<classes, students, attendance, nextLessonId, nextHistoryId,
                   grade_settings, exam_types, nextExamTypeId,
                   restVars>>

(* ---------------------- DELETE /api/classes/:id ----------------------- *)
DeleteClass(teacherId, id) ==
    LET goneClasses == IF classOk(id, teacherId) THEN {id} ELSE {}
        goneStudents == {s.id : s \in {k \in students : k.class_id \in goneClasses}}
        goneSubjects == {s.id : s \in {k \in subjects : k.class_id \in goneClasses}}
        gone == {l.id : l \in {k \in timetable_lessons : k.class_id \in goneClasses}}
    IN  /\ Respond("deleteClass", teacherId, 200)
        /\ classes' = {c \in classes : c.id \notin goneClasses}
        /\ students' = {s \in students : s.id \notin goneStudents}
        /\ subjects' = {s \in subjects : s.id \notin goneSubjects}
        /\ attendance' = {a \in attendance :
                            a.class_id \notin goneClasses /\ a.student_id \notin goneStudents}
        /\ marks' = {m \in marks :
                       /\ m.class_id \notin goneClasses
                       /\ m.student_id \notin goneStudents
                       /\ m.subject_id \notin goneSubjects}
        /\ timetable_lessons' = LessonsAfterDelete(gone, goneSubjects)
        /\ timetable_history' = HistoryAfterDelete(goneClasses, gone, goneSubjects)
        /\ UNCHANGED <<nextLessonId, nextHistoryId,
                       grade_settings, exam_types, nextExamTypeId,
                   restVars>>

(* ------------------ POST /api/classes/:classId/attendance ------------- *)
\* a record of the request body: [student_id, status, reason]
\* the date casts to date ($3::date)
DateCastOk(date) == date # "bad"

\* the insert is accepted: student_id and class_id reference existing rows,
\* the date is well-formed, status passes its check constraint
AttendanceWriteOk(classId, date, r) ==
    /\ \E s \in students : s.id = r.student_id
    /\ \E c \in classes : c.id = classId
    /\ DateCastOk(date)
    /\ r.status \in {"present", "absent"}

StoredReason_anyStatus(r) == OrNull(r.reason)

\* r.status === "absent" ? String(r.reason || "").trim() || null : null
StoredReason(r) == IF r.status = "absent" THEN OrNull(r.reason) ELSE NULL

AttendanceRow(classId, date, r) ==
    [student_id |-> r.student_id, class_id |-> classId, date |-> date,
     status |-> r.status, reason |-> StoredReason(r)]

UpsertAttendance_insertOnly(rows, classId, date, r) ==
    rows \cup {AttendanceRow(classId, date, r)}

\* insert ... on conflict (student_id, date) do update set status, class_id, reason
UpsertAttendance(rows, classId, date, r) ==
    {a \in rows : ~(a.student_id = r.student_id /\ a.date = date)}
        \cup {AttendanceRow(classId, date, r)}

\* for (const r of records) await client.query(...): stops at the first failure
RECURSIVE RunAttendance(_, _, _, _)
RunAttendance(rows, classId, date, records) ==
    IF records = <<>> THEN [ok |-> TRUE, rows |-> rows]
    ELSE IF ~AttendanceWriteOk(classId, date, Head(records)) THEN [ok |-> FALSE, rows |-> rows]
    ELSE RunAttendance(UpsertAttendance(rows, classId, date, Head(records)),
                       classId, date, Tail(records))

SaveAttendanceStatus(teacherId, classId, date, records) ==
    IF date = "" THEN 400
    ELSE IF ~RunAttendance(attendance, classId, date, records).ok THEN 500
    ELSE 200

\* the attendance table after the request
SaveAttendanceRows(teacherId, classId, date, records) ==
    IF date = "" THEN attendance
    ELSE Transaction(RunAttendance(attendance, classId, date, records), attendance)

SaveAttendance(teacherId, classId, date, records) ==
    /\ Respond("saveAttendance", teacherId, SaveAttendanceStatus(teacherId, classId, date, records))
    /\ attendance' = SaveAttendanceRows(teacherId, classId, date, records)
    /\ UNCHANGED <<classes, students, subjects, marks, timetable_lessons,
                   timetable_history, nextLessonId, nextHistoryId,
                   grade_settings, exam_types, nextExamTypeId,
                   restVars>>

(* -------------------- POST /api/classes/:classId/marks ---------------- *)
\* a record of the request body: [student_id, score]
\* the check constraint on marks.term
Terms == {"Term 1", "Term 2", "Term 3"}

\* the insert is accepted: student_id, subject_id and class_id reference
\* existing rows, term and score pass their check constraints
MarkWriteOk(classId, subjectId, examType, term, r) ==
    /\ \E s \in students : s.id = r.student_id
    /\ \E s \in subjects : s.id = subjectId
    /\ \E c \in classes : c.id = classId
    /\ term \in Terms
    /\ r.score >= 0 /\ r.score <= 100

MarkRow(classId, subjectId, examType, term, r) ==
    [student_id |-> r.student_id, subject_id |-> subjectId, class_id |-> classId,
     exam_type |-> examType, term |-> term, score |-> r.score, out_of |-> 100]

UpsertMark_insertOnly(rows, classId, subjectId, examType, term, r) ==
    rows \cup {MarkRow(classId, subjectId, examType, term, r)}

\* insert ... on conflict (student_id, subject_id, exam_type, term)
\* do update set score, class_id
UpsertMark(rows, classId, subjectId, examType, term, r) ==
    {m \in rows : ~(/\ m.student_id = r.student_id /\ m.subject_id = subjectId
                    /\ m.exam_type = examType /\ m.term = term)}
        \cup {MarkRow(classId, subjectId, examType, term, r)}

RECURSIVE RunMarks(_, _, _, _, _, _)
RunMarks(rows, classId, subjectId, examType, term, records) ==
    IF records = <<>> THEN [ok |-> TRUE, rows |-> rows]
    ELSE IF ~MarkWriteOk(classId, subjectId, examType, term, Head(records))
      THEN [ok |-> FALSE, rows |-> rows]
    ELSE RunMarks(UpsertMark(rows, classId, subjectId, examType, term, Head(records)),
                  classId, subjectId, examType, term, Tail(records))

SaveMarksStatus(teacherId, classId, subjectId, examType, term, records) ==
    IF RunMarks(marks, classId, subjectId, examType, term, records).ok THEN 200 ELSE 500

\* the marks table after the request
SaveMarksRows(teacherId, classId, subjectId, examType, term, records) ==
    Transaction(RunMarks(marks, classId, subjectId, examType, term, records), marks)

SaveMarks(teacherId, classId, subjectId, examType, term, records) ==
    /\ Respond("saveMarks", teacherId, SaveMarksStatus(teacherId, classId, subjectId, examType, term, records))
    /\ marks' = SaveMarksRows(teacherId, classId, subjectId, examType, term, records)
    /\ UNCHANGED <<classes, students, subjects, attendance, timetable_lessons,
                   timetable_history, nextLessonId, nextHistoryId,
                   grade_settings, exam_types, nextExamTypeId,
                   restVars>>

(* ===================== timetable: collisions, compensation ============ *)
\* request values
TeachingDays == {"Monday", "Tuesday"}
DayInputs == TeachingDays \cup {"Sunday", ""}
\* start before end, and a request that leaves the start time out
RangeInputs == {r \in Times \X Times : r[1] < r[2]} \cup {<<NoTime, MaxTime>>}
LessonIdInputs == 1..MaxLessons
\* compensation_note, compensation_date
CompensationInputs == {<<"", "">>, <<"swap", "2026-01-05">>, <<"", "bad">>}

\* the counters stay within the bounds
LessonRoom == nextLessonId <= MaxLessons
HistoryRoom == nextHistoryId <= MaxHistory

NextTT ==
    \/ /\ LessonRoom
       /\ \E t \in Teachers, c \in ClassIds, d \in DayInputs, r \in RangeInputs :
            CreateLesson(t, c, 1, d, r[1], r[2])
    \/ /\ HistoryRoom
       /\ \E t \in Teachers, id \in LessonIdInputs, a \in {"true", "false", NULL} :
            PatchLesson(t, id, a, "")
    \/ /\ LessonRoom
       /\ \E t \in Teachers, id \in LessonIdInputs, d \in DayInputs,
             r \in RangeInputs, c \in CompensationInputs :
            Compensate(t, id, d, r[1], r[2], c[1], c[2])
    \/ \E t \in Teachers, id \in LessonIdInputs : DeleteLesson(t, id)

SpecTT == Init /\ [][NextTT]_vars

(* ----------------------- properties: timetable ------------------------ *)
\* the teacher a class belongs to
TeacherOfClass(classId) == (CHOOSE c \in classes : c.id = classId).teacher_id

\* a.start < b.end and b.start < a.end, on the same day
RangesOverlap(aDay, aStart, aEnd, bDay, bStart, bEnd) ==
    aDay = bDay /\ aStart < bEnd /\ bStart < aEnd

\* the lessons of the teacher's classes that overlap the requested day and range
OverlappingLessons(teacherId, day, startTime, endTime) ==
    {l \in timetable_lessons :
        /\ TeacherOfClass(l.class_id) = teacherId
        /\ RangesOverlap(l.day_of_week, l.start_time, l.end_time, day, startTime, endTime)}

ProperRanges == {r \in Times \X Times : r[1] < r[2]}

\* C1: no two distinct lessons in classes of the same teacher have the same
\* day_of_week and overlapping time ranges.
C1_NoOverlappingLessons ==
    \A a \in timetable_lessons, b \in timetable_lessons :
        (a.id # b.id /\ TeacherOfClass(a.class_id) = TeacherOfClass(b.class_id))
            => ~RangesOverlap(a.day_of_week, a.start_time, a.end_time,
                              b.day_of_week, b.start_time, b.end_time)

\* C2: a compensation request for an owned lesson whose day, start and end
\* overlap an existing lesson of the same teacher is rejected and leaves
\* timetable_lessons (no new lesson, the original's compensated flag, note and
\* date) unchanged.
C2_CompensationCollisionRejected ==
    \A t \in Teachers, id \in LessonIdInputs, d \in TeachingDays,
       r \in ProperRanges, c \in CompensationInputs :
        (OwnedLessons(id, t) # {} /\ OverlappingLessons(t, d, r[1], r[2]) # {})
            => /\ CompensateStatus(t, id, d, r[1], r[2], c[1], c[2]) # 200
               /\ CompensateRows(t, id, d, r[1], r[2], c[1], c[2]) = timetable_lessons

\* what a successful compensation of lesson `orig` leaves in `rows`: one new
\* lesson, with a new id, that points at the original and is unmarked, and the
\* original flagged compensated
CompensationApplied(orig, rows) ==
    /\ \E n \in rows :
          /\ n.id \notin {l.id : l \in timetable_lessons}
          /\ n.compensation_for_lesson_id = orig.id
          /\ n.attended = NULL
          /\ rows \ {n} = (timetable_lessons \ {orig}) \cup
                            {k \in rows : k.id = orig.id}
    /\ \A k \in rows : k.id = orig.id => k.compensated = TRUE

RefusedByDatabase(orig, day, startTime, endTime, date) ==
    \/ day \notin ValidDays
    \/ date = "bad"
    \/ \E l \in timetable_lessons :
          /\ l.class_id = orig.class_id /\ l.day_of_week = day
          /\ l.start_time = startTime /\ l.end_time = endTime

C10_CreateRejectedIffOverlap ==
    \A t \in Teachers, c \in ClassIds, sub \in {NoId, 1}, d \in DayInputs, r \in ProperRanges :
        (\E k \in classes : k.id = c /\ k.teacher_id = t)
            => (CreateLessonStatus(t, c, sub, d, r[1], r[2]) = 409
                  <=> OverlappingLessons(t, d, r[1], r[2]) # {})

\* two lessons of one teacher, in different classes, that touch were both accepted
C10_Witness ==
    /\ resp.op = "createLesson" /\ resp.status = 200
    /\ \E a \in timetable_lessons, b \in timetable_lessons :
          /\ a.class_id # b.class_id
          /\ TeacherOfClass(a.class_id) = TeacherOfClass(b.class_id)
          /\ a.day_of_week = b.day_of_week
          /\ a.end_time = b.start_time

(* ===================== timetable: the history log ===================== *)
\* request values: lessons of class 1 on one day in two touching ranges,
\* marked by its teacher t1 and addressed in vain by t2
HistRangeInputs == {r \in ProperRanges : r[2] = r[1] + 1 /\ r[2] <= 2}
\* attended and reason of a marking request
MarkInputs == {<<"true", "">>, <<"false", "sick">>, <<NULL, "">>}

NextHist ==
    \/ /\ LessonRoom
       /\ \E t \in Teachers, r \in HistRangeInputs :
            CreateLesson(t, 1, 1, "Monday", r[1], r[2])
    \/ \E t \in Teachers, id \in LessonIdInputs, r \in HistRangeInputs :
         UpdateLesson(t, id, 1, "Monday", r[1], r[2])
    \/ /\ HistoryRoom
       /\ \E t \in Teachers, id \in LessonIdInputs, m \in MarkInputs :
            PatchLesson(t, id, m[1], m[2])
    \/ /\ LessonRoom
       /\ \E t \in Teachers, id \in LessonIdInputs, r \in HistRangeInputs :
            Compensate(t, id, "Monday", r[1], r[2], "", "")
    \/ \E t \in Teachers, id \in LessonIdInputs : DeleteLesson(t, id)
    \/ \E t \in Teachers : DeleteSubject(t, 1)
    \/ \E t \in Teachers : DeleteClass(t, 1)

SpecHist == Init /\ [][NextHist]_vars

(* ----------------------- properties: history log ---------------------- *)
\* the history row a marking of `lesson` with `attended` has to append
IsSnapshotOf(h, lesson, attended) ==
    /\ h.lesson_id = lesson.id /\ h.class_id = lesson.class_id
    /\ h.subject_id = lesson.subject_id /\ h.day_of_week = lesson.day_of_week
    /\ h.start_time = lesson.start_time /\ h.end_time = lesson.end_time
    /\ h.status = (IF attended = "true" THEN "attended" ELSE "not_attended")

\* C4: every successful PATCH /timetable/:id with attended = true or false
\* appends exactly one history entry with the status and the lesson's class,
\* subject, day, start and end, also when the lesson already had that status;
\* with attended = null it appends none.
C4_MarkingAppendsOneHistoryRow ==
    [][\A t \in Teachers, id \in LessonIdInputs, m \in MarkInputs :
          (PatchLesson(t, id, m[1], m[2]) /\ resp'.status = 200)
            => IF m[1] = NULL
                 THEN timetable_history' = timetable_history
                 ELSE \E h \in timetable_history' :
                        /\ h.id \notin {k.id : k \in timetable_history}
                        /\ timetable_history' = timetable_history \cup {h}
                        /\ \E l \in timetable_lessons : l.id = id /\ IsSnapshotOf(h, l, m[1])
      ]_vars

\* a lesson was marked with the status it already had: two entries of one
\* lesson with the same status
C4_Witness ==
    /\ resp.op = "patchLesson" /\ resp.status = 200
    /\ \E a \in timetable_history, b \in timetable_history :
          /\ a.id # b.id /\ a.lesson_id = b.lesson_id /\ a.lesson_id # NoId
          /\ a.status = b.status
    /\ \E l \in timetable_lessons : l.attended = "false"

\* C5 as stated: a history entry, once it exists, is never removed and none of
\* its fields changes.
C5_HistoryImmutable_AsStated ==
    [][\A h \in timetable_history : h \in timetable_history']_vars

\* C5 (amended): a history entry stays, with its class, day, times, status,
\* reason and recorded_at, until its class is deleted; its lesson_id changes
\* only to null, when that lesson is deleted, and its subject_id only to null,
\* when that subject is deleted.
C5_HistoryKeptUntilClassDeleted ==
    [][\A h \in timetable_history :
          IF h.class_id \in {c.id : c \in classes'}
            THEN \E g \in timetable_history' :
                   /\ g.id = h.id
                   /\ g = [h EXCEPT !.lesson_id = g.lesson_id, !.subject_id = g.subject_id]
                   /\ g.lesson_id = IF h.lesson_id \in {l.id : l \in timetable_lessons'}
                                      THEN h.lesson_id ELSE NoId
                   /\ g.subject_id = IF h.subject_id \in {x.id : x \in subjects'}
                                       THEN h.subject_id ELSE NoId
            ELSE \A g \in timetable_history' : g.id # h.id
      ]_vars

\* an entry outlived its lesson and its subject
C5_Witness ==
    \E h \in timetable_history :
        /\ h.lesson_id = NoId /\ h.subject_id = NoId
        /\ h.status = "not_attended" /\ h.reason = "sick"
        /\ timetable_lessons # {}

(* ========================= attendance saves =========================== *)
\* sequences over S of length at most n
RECURSIVE SeqsUpTo(_, _)
SeqsUpTo(S, n) ==
    IF n = 0 THEN {<<>>}
    ELSE SeqsUpTo(S, n - 1) \cup
           {Append(q, x) : q \in {p \in SeqsUpTo(S, n - 1) : Len(p) = n - 1}, x \in S}

\* request values: a class of each teacher, two dates and a missing one,
\* a student of each teacher, present with and without a reason, a status the
\* check constraint refuses
SaveClassInputs == {1, 3}
AttendanceDateInputs == {"2026-01-05", "2026-01-06", ""}
AttendanceRecordInputs ==
    {[student_id |-> s, status |-> x[1], reason |-> x[2]] :
        s \in StudentIds,
        x \in {<<"present", "">>, <<"present", "sick">>, <<"absent", "sick">>, <<"late", "">>}}
AttendanceBatches == SeqsUpTo(AttendanceRecordInputs, MaxBatch)

NextAtt ==
    \E t \in Teachers, c \in SaveClassInputs, d \in AttendanceDateInputs,
       records \in AttendanceBatches :
        SaveAttendance(t, c, d, records)

SpecAtt == Init /\ [][NextAtt]_vars

(* =========================== marks saves ============================== *)
ScoreInputs == {50, 100, 101}
MarkRecordInputs == {[student_id |-> s, score |-> x] : s \in StudentIds, x \in ScoreInputs}
MarkBatches == SeqsUpTo(MarkRecordInputs, MaxBatch)
\* subject 1 (class 1), subject 2 (class 3) and a missing subject_id
MarkSubjectInputs == {1, 2, NoId}
TermInputs == {"Term 1", "Term 4"}

NextMarks ==
    \E t \in Teachers, c \in SaveClassInputs, sub \in MarkSubjectInputs,
       term \in TermInputs, records \in MarkBatches :
        SaveMarks(t, c, sub, "CAT", term, records)

SpecMarks == Init /\ [][NextMarks]_vars

(* ------------------- properties: attendance and marks ----------------- *)
\* the rows of a table that belong to the teacher, through their class
RowsOfTeacher(rows, teacherId) ==
    {x \in rows : \E c \in InitClasses : c.id = x.class_id /\ c.teacher_id = teacherId}

\* C3: a request authenticated as teacher t creates, changes or deletes no
\* row (here: attendance record or mark) of a class of another teacher.
C3_TenantIsolation ==
    [][\A u \in Teachers \ {resp'.teacher} :
          /\ RowsOfTeacher(attendance', u) = RowsOfTeacher(attendance, u)
          /\ RowsOfTeacher(marks', u) = RowsOfTeacher(marks, u)
      ]_vars

\* the positions of the batch that name the student
PositionsOf(records, studentId) ==
    {i \in 1..Len(records) : records[i].student_id = studentId}

\* the last record of the batch that names the student
LastFor(records, studentId) ==
    records[CHOOSE i \in PositionsOf(records, studentId) :
              \A j \in PositionsOf(records, studentId) : j <= i]

\* C7: there is at most one attendance record per (student, date); a
\* successful save leaves, for every student it names, exactly one record on
\* its date, with the status the save gave last for that student, and leaves
\* every other record as it was.
C7_OneRecordPerStudentDate ==
    /\ \A a \in attendance, b \in attendance :
          (a.student_id = b.student_id /\ a.date = b.date) => a = b
    /\ \A t \in Teachers, c \in SaveClassInputs, d \in AttendanceDateInputs,
          records \in AttendanceBatches :
          SaveAttendanceStatus(t, c, d, records) = 200 =>
            LET rows == SaveAttendanceRows(t, c, d, records)
                named == {records[i].student_id : i \in 1..Len(records)}
            IN  /\ \A s \in named :
                     \E a \in rows :
                        /\ {x \in rows : x.student_id = s /\ x.date = d} = {a}
                        /\ a.status = LastFor(records, s).status
                /\ {x \in rows : ~(x.student_id \in named /\ x.date = d)}
                     = {x \in attendance : ~(x.student_id \in named /\ x.date = d)}

\* a student has one record on each date, with different statuses
C7_Witness ==
    /\ resp.op = "saveAttendance" /\ resp.status = 200
    /\ \E a \in attendance, b \in attendance :
          /\ a.student_id = b.student_id /\ a.date # b.date
          /\ a.status = "present" /\ b.status = "absent"
    /\ Cardinality(attendance) = 4

SameMarkKey(a, b) ==
    /\ a.student_id = b.student_id /\ a.subject_id = b.subject_id
    /\ a.exam_type = b.exam_type /\ a.term = b.term

\* C8: there is at most one mark per (student, subject, exam_type, term); a
\* successful save leaves, for every student it names, exactly one mark on its
\* key, with the score the save gave last for that student, leaves every other
\* mark as it was, and sending the same batch again changes nothing more.
C8_OneMarkPerKeyAndIdempotent ==
    /\ \A a \in marks, b \in marks : SameMarkKey(a, b) => a = b
    /\ \A t \in Teachers, c \in SaveClassInputs, sub \in MarkSubjectInputs,
          term \in TermInputs, records \in MarkBatches :
          SaveMarksStatus(t, c, sub, "CAT", term, records) = 200 =>
            LET rows == SaveMarksRows(t, c, sub, "CAT", term, records)
                named == {records[i].student_id : i \in 1..Len(records)}
                key(x) == x.subject_id = sub /\ x.exam_type = "CAT" /\ x.term = term
            IN  /\ \A s \in named :
                     \E a \in rows :
                        /\ {x \in rows : x.student_id = s /\ key(x)} = {a}
                        /\ a.score = LastFor(records, s).score
                /\ {x \in rows : ~(x.student_id \in named /\ key(x))}
                     = {x \in marks : ~(x.student_id \in named /\ key(x))}
                /\ Transaction(RunMarks(rows, c, sub, "CAT", term, records), rows) = rows

\* both students have a mark for both subjects
C8_Witness ==
    /\ resp.op = "saveMarks" /\ resp.status = 200
    /\ Cardinality(marks) = 4
    /\ \E a \in marks, b \in marks : a.student_id = b.student_id /\ a.score # b.score

(* ===================== transactions (atomic requests) ================= *)
\* request values: saves for class 1 on one date and one mark key, with a
\* record of an unknown student (9) and one the check constraints refuse;
\* one lesson slot to create, mark and compensate
AtomicAttendanceInputs ==
    {[student_id |-> x[1], status |-> x[2], reason |-> x[3]] :
        x \in {<<1, "present", "">>, <<1, "absent", "sick">>, <<2, "present", "">>,
               <<9, "present", "">>, <<1, "late", "">>}}
AtomicMarkInputs ==
    {[student_id |-> x[1], score |-> x[2]] :
        x \in {<<1, 50>>, <<1, 100>>, <<2, 50>>, <<9, 50>>, <<1, 101>>}}
AtomicAttendanceBatches == SeqsUpTo(AtomicAttendanceInputs, MaxBatch)
AtomicMarkBatches == SeqsUpTo(AtomicMarkInputs, MaxBatch)
AtomicDayInputs == {"Monday", "Sunday"}

NextAtomic ==
    \/ \E t \in Teachers, records \in AtomicAttendanceBatches :
         SaveAttendance(t, 1, "2026-01-05", records)
    \/ \E t \in Teachers, records \in AtomicMarkBatches :
         SaveMarks(t, 1, 1, "CAT", "Term 1", records)
    \/ /\ LessonRoom
       /\ CreateLesson("t1", 1, 1, "Monday", 0, 1)
    \/ /\ HistoryRoom
       /\ \E id \in LessonIdInputs, a \in {"true", "false"} : PatchLesson("t1", id, a, "")
    \/ /\ LessonRoom
       /\ \E id \in LessonIdInputs, d \in AtomicDayInputs, r \in HistRangeInputs,
             c \in CompensationInputs :
            Compensate("t1", id, d, r[1], r[2], c[1], c[2])

SpecAtomic == Init /\ [][NextAtomic]_vars

\* the record names no stored student, or carries a status outside
\* {present, absent}
BadAttendanceRecord(r) ==
    \/ r.student_id \notin {x.id : x \in students}
    \/ r.status \notin {"present", "absent"}

\* the record names no stored student, or carries a score outside [0, 100]
BadMarkRecord(r) ==
    \/ r.student_id \notin {x.id : x \in students}
    \/ r.score < 0 \/ r.score > 100

\* C9: an attendance-save, marks-save or compensation request is atomic: a
\* request with a write that fails (a bad status, a bad score, an unknown
\* student anywhere in the batch, a compensation whose date is malformed) is
\* answered with an error, and every request answered with an error leaves the
\* stored rows exactly as they were.
C9_FailedRequestChangesNothing ==
    /\ \A t \in Teachers, records \in AtomicAttendanceBatches :
          LET status == SaveAttendanceStatus(t, 1, "2026-01-05", records)
          IN  /\ (\E i \in 1..Len(records) : BadAttendanceRecord(records[i])) => status = 500
              /\ status # 200 => SaveAttendanceRows(t, 1, "2026-01-05", records) = attendance
    /\ \A t \in Teachers, records \in AtomicMarkBatches :
          LET status == SaveMarksStatus(t, 1, 1, "CAT", "Term 1", records)
          IN  /\ (\E i \in 1..Len(records) : BadMarkRecord(records[i])) => status = 500
              /\ status # 200 => SaveMarksRows(t, 1, 1, "CAT", "Term 1", records) = marks
    /\ \A id \in LessonIdInputs, d \in AtomicDayInputs, r \in HistRangeInputs,
          c \in CompensationInputs :
          LET status == CompensateStatus("t1", id, d, r[1], r[2], c[1], c[2])
          IN  /\ c[2] = "bad" => status # 200
              /\ status # 200 =>
                   CompensateRows("t1", id, d, r[1], r[2], c[1], c[2]) = timetable_lessons

\* a save failed on stored data: the record it left is the one saved before
C9_Witness ==
    /\ resp.op = "saveAttendance" /\ resp.status = 500
    /\ Cardinality(attendance) = 2
    /\ marks # {}
    /\ \E l \in timetable_lessons : l.attended = "false" /\ ~l.compensated

(* ===================== timetable: editing a lesson ==================== *)
\* request values: lessons are created and compensated in unit ranges, and
\* edited to any day and range, so a lesson spanning two units was moved there
\* over its own old range
EditSubjectInputs == {NoId, 1}
EditClassInputs == {1, 2}
EditDayInputs == {"Monday", ""}

NextEdit ==
    \/ /\ LessonRoom
       /\ \E t \in Teachers, c \in EditClassInputs, r \in HistRangeInputs :
            CreateLesson(t, c, 1, "Monday", r[1], r[2])
    \/ \E t \in Teachers, id \in LessonIdInputs, d \in EditDayInputs, r \in RangeInputs :
         UpdateLesson(t, id, NoId, d, r[1], r[2])
    \/ /\ HistoryRoom
       /\ \E id \in LessonIdInputs : PatchLesson("t1", id, "false", "")
    \/ /\ LessonRoom
       /\ \E id \in LessonIdInputs, r \in HistRangeInputs :
            Compensate("t1", id, "Monday", r[1], r[2], "", "")

SpecEdit == Init /\ [][NextEdit]_vars

\* C11: an update of an owned lesson L is answered 409 exactly when a lesson
\* other than L, of the same teacher, overlaps the requested day and range (so
\* L's own current slot, or a range that overlaps only L's old range, never
\* causes the rejection), and an update that is rejected leaves every lesson,
\* L's subject, day and times included, unchanged.
C11_UpdateCollisionExcludesSelf ==
    \A t \in Teachers, id \in LessonIdInputs, sub \in EditSubjectInputs,
       d \in DayInputs, r \in RangeInputs :
        OwnedLessons(id, t) # {} =>
            LET status == UpdateLessonStatus(t, id, sub, d, r[1], r[2])
                others == OverlappingLessons(t, d, r[1], r[2]) \ OwnedLessons(id, t)
            IN  /\ r[1] # NoTime => (status = 409 <=> others # {})
                /\ status # 200 =>
                     UpdateLessonRows(t, id, sub, d, r[1], r[2]) = timetable_lessons

\* a lesson was moved to a range that covers its old one: the history entry
\* written before the move still shows the old range
C11_Witness ==
    /\ resp.op = "updateLesson" /\ resp.status = 200
    /\ \E a \in timetable_lessons, h \in timetable_history :
          /\ h.lesson_id = a.id
          /\ h.day_of_week = a.day_of_week
          /\ h.end_time = h.start_time + 1
          /\ a.end_time = a.start_time + 2
          /\ a.subject_id = NoId

(* ========================= grade scale engine ========================= *)
\* Numbers.  Thresholds and scores are whole points; the averages the
\* performance summary rounds to two decimals are counted in hundredths.  A
\* body value that is left out is Absent, one that Number() turns into NaN
\* (such as "abc") is NotFinite.
Absent == -1000
NotFinite == -999

GRADE_BANDS ==
    << <<"A", "a_min">>, <<"A-", "a_minus_min">>, <<"B+", "b_plus_min">>,
       <<"B", "b_min">>, <<"B-", "b_minus_min">>, <<"C+", "c_plus_min">>,
       <<"C", "c_min">>, <<"C-", "c_minus_min">>, <<"D+", "d_plus_min">>,
       <<"D", "d_min">>, <<"D-", "d_minus_min">>, <<"E", "e_min">> >>

BandIndexes == 1..Len(GRADE_BANDS)
ThresholdKeys == {GRADE_BANDS[i][2] : i \in BandIndexes}
ScaleKeys == ThresholdKeys \cup {"average_multiplier"}

\* the scale whose thresholds, from A down to E, are the sequence `ladder`
ScaleOf(ladder, multiplier) ==
    [k \in ScaleKeys |->
        IF k = "average_multiplier" THEN multiplier
        ELSE ladder[CHOOSE i \in BandIndexes : GRADE_BANDS[i][2] = k]]

DEFAULT_GRADE_SCALE == ScaleOf(<<80, 75, 70, 65, 60, 55, 50, 45, 40, 35, 30, 0>>, 1)

\* const n = Number(value); return Number.isFinite(n) ? n : fallback
toNumber(value, fallback) ==
    IF value \in {Absent, NotFinite} THEN fallback ELSE value

\* value ?? fallback
OrElse(value, fallback) == IF value = Absent THEN fallback ELSE value

gradeFromScale_above(avg, scale) ==
    LET met == {i \in BandIndexes : avg > scale[GRADE_BANDS[i][2]]}
    IN  IF met = {} THEN "E"
        ELSE GRADE_BANDS[CHOOSE i \in met : \A j \in met : i <= j][1]

\* for (const [label, key] of GRADE_BANDS) if (avg >= scale[key]) return label;
\* return "E"
gradeFromScale(avg, scale) ==
    LET met == {i \in BandIndexes : avg >= scale[GRADE_BANDS[i][2]]}
    IN  IF met = {} THEN "E"
        ELSE GRADE_BANDS[CHOOSE i \in met : \A j \in met : i <= j][1]

\* rows[0] || DEFAULT_GRADE_SCALE of GRADE_SETTINGS_SELECT
ScaleFor(teacherId) ==
    IF \E g \in grade_settings : g.teacher_id = teacherId
      THEN [k \in ScaleKeys |-> (CHOOSE g \in grade_settings : g.teacher_id = teacherId)[k]]
      ELSE DEFAULT_GRADE_SCALE

(* ------------------------ PUT /api/grade-settings --------------------- *)
\* the thirteen numbers the handler reads from the body
ParsedScale(body) ==
    [k \in ScaleKeys |->
        IF k = "average_multiplier" THEN toNumber(OrElse(body[k], 1), 1)
        ELSE IF k = "e_min" THEN toNumber(OrElse(body[k], 0), 0)
        ELSE toNumber(body[k], 0)]

\* thresholds.every((value, index) => index === last || value > thresholds[index + 1])
isStrictDescending(scale) ==
    \A i \in BandIndexes \ {Len(GRADE_BANDS)} :
        scale[GRADE_BANDS[i][2]] > scale[GRADE_BANDS[i + 1][2]]

PutGradeSettingsStatus(teacherId, body) ==
    IF ~(/\ isStrictDescending(ParsedScale(body))
         /\ ParsedScale(body).e_min >= 0
         /\ ParsedScale(body).a_min <= 100) THEN 400
    ELSE IF ParsedScale(body).average_multiplier \notin {1, 2} THEN 400
    ELSE 200

\* insert into grade_settings ... on conflict (teacher_id) do update set ...
GradeSettingsRow(teacherId, scale) ==
    [k \in ScaleKeys \cup {"teacher_id"} |->
        IF k = "teacher_id" THEN teacherId ELSE scale[k]]

\* grade_settings after the request
PutGradeSettingsRows(teacherId, body) ==
    IF PutGradeSettingsStatus(teacherId, body) = 200
      THEN {g \in grade_settings : g.teacher_id # teacherId}
             \cup {GradeSettingsRow(teacherId, ParsedScale(body))}
      ELSE grade_settings

PutGradeSettings(teacherId, body) ==
    /\ Respond("putGradeSettings", teacherId, PutGradeSettingsStatus(teacherId, body))
    /\ grade_settings' = PutGradeSettingsRows(teacherId, body)
    /\ UNCHANGED <<classes, students, subjects, attendance, marks,
                   timetable_lessons, timetable_history,
                   nextLessonId, nextHistoryId, exam_types, nextExamTypeId,
                   restVars>>

\* class_grade: gradeFromScale(classAverage, scale), for a given average
GradeAverage(teacherId, avg) ==
    /\ RespondWith("gradeFromScale", teacherId, 200,
                   [kind |-> "grade", avg |-> avg,
                    grade |-> gradeFromScale(avg, ScaleFor(teacherId))])
    /\ UNCHANGED <<classes, students, subjects, attendance, marks,
                   timetable_lessons, timetable_history, nextLessonId, nextHistoryId,
                   grade_settings, exam_types, nextExamTypeId,
                   restVars>>

\* request values: every ladder of twelve strictly decreasing thresholds
\* between 0 and 12, the default ladder, and ladders the validation has to
\* refuse or repair
LadderValues == 0..Len(GRADE_BANDS)
\* the values from 12 down to 0, without v
LadderWithout(v) ==
    [i \in BandIndexes |->
        IF Len(GRADE_BANDS) - i + 1 > v THEN Len(GRADE_BANDS) - i + 1 ELSE Len(GRADE_BANDS) - i]
DefaultLadder == <<80, 75, 70, 65, 60, 55, 50, 45, 40, 35, 30, 0>>
ValidLadders == {LadderWithout(v) : v \in LadderValues} \cup {DefaultLadder}
\* two equal neighbours, an increasing ladder, e_min < 0, a_min > 100
RefusedLadders ==
    {<<80, 75, 70, 70, 60, 55, 50, 45, 40, 35, 30, 0>>,
     <<0, 30, 35, 40, 45, 50, 55, 60, 65, 70, 75, 80>>,
     <<80, 75, 70, 65, 60, 55, 50, 45, 40, 35, 30, -1>>,
     <<101, 75, 70, 65, 60, 55, 50, 45, 40, 35, 30, 0>>}
\* a_min that is not a number, e_min left out, e_min that is not a number
OddLadders ==
    {<<NotFinite, 75, 70, 65, 60, 55, 50, 45, 40, 35, 30, 0>>,
     <<80, 75, 70, 65, 60, 55, 50, 45, 40, 35, 30, Absent>>,
     <<80, 75, 70, 65, 60, 55, 50, 45, 40, 35, 30, NotFinite>>}
MultiplierInputs == {1, 2, 3, 0, Absent, NotFinite}
NumericBodies ==
    {ScaleOf(l, m) : l \in ValidLadders \cup RefusedLadders, m \in MultiplierInputs}
GradeBodies == NumericBodies \cup {ScaleOf(l, m) : l \in OddLadders, m \in {1, 3}}
\* averages below, at and above every threshold of the ladders
AverageInputs == (-1..(Len(GRADE_BANDS) + 1)) \cup {29, 30, 79, 80, 100}

\* t1 submits every body, t2 the default ladder with every multiplier
NextScale ==
    \/ \E body \in GradeBodies : PutGradeSettings("t1", body)
    \/ \E m \in MultiplierInputs : PutGradeSettings("t2", ScaleOf(DefaultLadder, m))
    \/ \E t \in Teachers, avg \in AverageInputs : GradeAverage(t, avg)

SpecScale == Init /\ [][NextScale]_vars

(* ------------------------ properties: grade scale --------------------- *)
\* the position of a label in the order A, A-, ..., E
BandOf(label) == CHOOSE i \in BandIndexes : GRADE_BANDS[i][1] = label

\* g is the first label, from A down, whose threshold is <= s; E when s is
\* below every threshold
IsFirstBandMet(g, s, scale) ==
    /\ g \in {GRADE_BANDS[i][1] : i \in BandIndexes}
    /\ IF \E j \in BandIndexes : scale[GRADE_BANDS[j][2]] <= s
         THEN /\ scale[GRADE_BANDS[BandOf(g)][2]] <= s
              /\ \A j \in BandIndexes : j < BandOf(g) => scale[GRADE_BANDS[j][2]] > s
         ELSE g = "E"

\* C12: for a scale with strictly decreasing thresholds and every average s,
\* gradeFromScale returns the first label in the order A, A-, ..., E whose
\* threshold is <= s, and E when s is below every threshold (negative s
\* included); an average just below the A threshold never yields A, and the
\* grade never gets better as s decreases.
C12_GradeIsFirstBandMet ==
    /\ \A t \in Teachers :
          LET scale == ScaleFor(t)
              grade == [s \in AverageInputs \cup {scale.a_min - 1} |-> gradeFromScale(s, scale)]
              band == [s \in AverageInputs |-> BandOf(grade[s])]
          IN  isStrictDescending(scale) =>
                /\ \A s \in AverageInputs : IsFirstBandMet(grade[s], s, scale)
                /\ grade[scale.a_min - 1] # "A"
                /\ \A s1 \in AverageInputs, s2 \in AverageInputs :
                      s1 <= s2 => band[s1] >= band[s2]
    /\ resp.op = "gradeFromScale" =>
          /\ isStrictDescending(ScaleFor(resp.teacher))
          /\ IsFirstBandMet(resp.body.grade, resp.body.avg, ScaleFor(resp.teacher))

\* an average one below the A threshold of a stored scale was graded A-
C12_Witness ==
    /\ resp.op = "gradeFromScale"
    /\ \E g \in grade_settings : g.teacher_id = resp.teacher /\ g.a_min # 80
    /\ resp.body.avg = ScaleFor(resp.teacher).a_min - 1
    /\ resp.body.avg = ScaleFor(resp.teacher).a_minus_min
    /\ resp.body.grade = "A-"

\* what the claim calls an invalid submission
ClaimedInvalid(body) ==
    \/ ~isStrictDescending(body)
    \/ body.e_min < 0
    \/ body.a_min > 100
    \/ (body.average_multiplier # Absent /\ body.average_multiplier \notin {1, 2})

\* C13: PUT /grade-settings is answered 400 and leaves grade_settings
\* unchanged whenever the twelve submitted thresholds are not strictly
\* decreasing, or e_min < 0, or a_min > 100, or the submitted
\* average_multiplier is anything other than 1 or 2; otherwise the submitted
\* values become the teacher's single stored scale.
C13_InvalidScaleRejected ==
    \A t \in Teachers, body \in NumericBodies :
        IF ClaimedInvalid(body)
          THEN /\ PutGradeSettingsStatus(t, body) = 400
               /\ PutGradeSettingsRows(t, body) = grade_settings
          ELSE /\ PutGradeSettingsStatus(t, body) = 200
               /\ PutGradeSettingsRows(t, body) =
                    {g \in grade_settings : g.teacher_id # t} \cup
                    {GradeSettingsRow(t, [body EXCEPT !.average_multiplier = OrElse(@, 1)])}

(* =================== ownership and uniqueness answers ================= *)
\* C14: a request that addresses a stored class, subject or lesson that is
\* not owned by the authenticated teacher (delete, update, mark, compensate)
\* is answered with 404.
C14_NotOwnedIsNotFound ==
    [][/\ \A t \in Teachers :
             (/\ \E c \in classes : c.id = 1 /\ c.teacher_id # t
              /\ DeleteClass(t, 1)) => resp'.status = 404
       /\ \A t \in Teachers :
             (/\ \E x \in subjects : x.id = 1 /\ ~classOk(x.class_id, t)
              /\ DeleteSubject(t, 1)) => resp'.status = 404
       /\ \A t \in Teachers, id \in LessonIdInputs :
             (/\ \E l \in timetable_lessons : l.id = id /\ ~classOk(l.class_id, t)
              /\ \/ DeleteLesson(t, id)
                 \/ PatchLesson(t, id, NULL, "")
                 \/ \E r \in HistRangeInputs :
                      \/ UpdateLesson(t, id, 1, "Monday", r[1], r[2])
                      \/ Compensate(t, id, "Monday", r[1], r[2], "", ""))
               => resp'.status = 404
      ]_vars

\* C15: writing a second lesson with the class, day, start and end of a
\* stored one is answered 409 and stores nothing, whether it is written by
\* lesson create, lesson update or compensation.
C15_DuplicateSlotIsConflict ==
    \A t \in Teachers, d \in TeachingDays, r \in ProperRanges :
        /\ \A c \in ClassIds :
              (classOk(c, t) /\ SlotTaken(c, d, r[1], r[2], NoId))
                => CreateLessonStatus(t, c, 1, d, r[1], r[2]) = 409
        /\ \A id \in LessonIdInputs :
              OwnedLessons(id, t) # {} =>
                LET orig == TheLesson(id, t)
                IN  /\ SlotTaken(orig.class_id, d, r[1], r[2], id)
                         => /\ UpdateLessonStatus(t, id, 1, d, r[1], r[2]) = 409
                            /\ UpdateLessonRows(t, id, 1, d, r[1], r[2]) = timetable_lessons
                    /\ (CanCompensate(orig) /\ SlotTaken(orig.class_id, d, r[1], r[2], NoId))
                         => /\ CompensateStatus(t, id, d, r[1], r[2], "", "") = 409
                            /\ CompensateRows(t, id, d, r[1], r[2], "", "") = timetable_lessons

(* ============================= exam types ============================= *)
DEFAULT_EXAM_TYPES == <<"Opener", "CAT", "Mid-Term", "End-Term">>

\* the names of DEFAULT_EXAM_TYPES[from..] the teacher does not have yet, in order
RECURSIVE MissingDefaults(_, _, _)
MissingDefaults(rows, teacherId, from) ==
    IF from > Len(DEFAULT_EXAM_TYPES) THEN <<>>
    ELSE IF \E e \in rows : e.teacher_id = teacherId /\ e.name = DEFAULT_EXAM_TYPES[from]
      THEN MissingDefaults(rows, teacherId, from + 1)
    ELSE <<DEFAULT_EXAM_TYPES[from]>> \o MissingDefaults(rows, teacherId, from + 1)

DefaultExamTypeRows_always(teacherId, firstId) ==
    {[id |-> firstId + i - 1, teacher_id |-> teacherId,
      name |-> MissingDefaults(exam_types, teacherId, 1)[i]]
        : i \in 1..Len(MissingDefaults(exam_types, teacherId, 1))}

\* ensureDefaultExamTypes: the rows it inserts (none when the teacher has any
\* exam type), with ids from firstId on
DefaultExamTypeRows(teacherId, firstId) ==
    IF \E e \in exam_types : e.teacher_id = teacherId THEN {}
    ELSE {[id |-> firstId + i - 1, teacher_id |-> teacherId,
           name |-> MissingDefaults(exam_types, teacherId, 1)[i]]
            : i \in 1..Len(MissingDefaults(exam_types, teacherId, 1))}

(* -------------------------- GET /api/exam-types ----------------------- *)
GetExamTypes(teacherId) ==
    /\ Respond("getExamTypes", teacherId, 200)
    /\ examTypesRead' = examTypesRead \cup {teacherId}
    /\ exam_types' = exam_types \cup DefaultExamTypeRows(teacherId, nextExamTypeId)
    /\ nextExamTypeId' = nextExamTypeId + Cardinality(DefaultExamTypeRows(teacherId, nextExamTypeId))
    /\ UNCHANGED <<classes, students, subjects, attendance, marks,
                   timetable_lessons, timetable_history, nextLessonId, nextHistoryId,
                   grade_settings, now, pending, sessionVars>>

(* -------------------------- POST /api/exam-types ---------------------- *)
AddExamTypeStatus(teacherId, name) == IF name = "" THEN 400 ELSE 200

\* insert into exam_types ... on conflict (teacher_id, name) do nothing
AddExamTypeRows(teacherId, name) ==
    IF name = "" \/ \E e \in exam_types : e.teacher_id = teacherId /\ e.name = name
      THEN {}
      ELSE {[id |-> nextExamTypeId, teacher_id |-> teacherId, name |-> name]}

AddExamType(teacherId, name) ==
    /\ Respond("addExamType", teacherId, AddExamTypeStatus(teacherId, name))
    /\ exam_types' = exam_types \cup AddExamTypeRows(teacherId, name)
    /\ nextExamTypeId' = nextExamTypeId + Cardinality(AddExamTypeRows(teacherId, name))
    /\ UNCHANGED <<classes, students, subjects, attendance, marks,
                   timetable_lessons, timetable_history, nextLessonId, nextHistoryId,
                   grade_settings,
                   restVars>>

(* ----------------------- DELETE /api/exam-types/:id ------------------- *)
\* select id, name from exam_types where id = $1 and teacher_id = $2
OwnedExamTypes(id, teacherId) ==
    {e \in exam_types : e.id = id /\ e.teacher_id = teacherId}

ExamTypeUsage_anyTeacher(teacherId, name) ==
    {m \in marks : m.exam_type = name}

\* select count(*) from marks m join classes c on c.id = m.class_id
\* where c.teacher_id = $1 and m.exam_type = $2
ExamTypeUsage(teacherId, name) ==
    {m \in marks : m.class_id \in ClassesOf(teacherId) /\ m.exam_type = name}

DeleteExamTypeStatus(teacherId, id) ==
    IF OwnedExamTypes(id, teacherId) = {} THEN 404
    ELSE IF ExamTypeUsage(teacherId, (CHOOSE e \in OwnedExamTypes(id, teacherId) : TRUE).name) # {}
      THEN 400
    ELSE 200

\* exam_types after the request
DeleteExamTypeRows(teacherId, id) ==
    IF DeleteExamTypeStatus(teacherId, id) = 200
      THEN {e \in exam_types : ~(e.id = id /\ e.teacher_id = teacherId)}
      ELSE exam_types

DeleteExamType(teacherId, id) ==
    /\ Respond("deleteExamType", teacherId, DeleteExamTypeStatus(teacherId, id))
    /\ exam_types' = DeleteExamTypeRows(teacherId, id)
    /\ UNCHANGED <<classes, students, subjects, attendance, marks,
                   timetable_lessons, timetable_history, nextLessonId, nextHistoryId,
                   grade_settings, nextExamTypeId,
                   restVars>>

\* request values: each teacher saves one mark of its own student under one
\* of two exam-type names, t1 can drop its subject (and with it the marks)
ExamTypeIdInputs == 1..MaxExamTypes
ExamNameInputs == {"CAT", "Quiz", ""}
ExamTypeRoom(n) == nextExamTypeId + n <= MaxExamTypes + 1

NextExam ==
    \/ /\ ExamTypeRoom(Len(DEFAULT_EXAM_TYPES))
       /\ \E t \in Teachers : GetExamTypes(t)
    \/ /\ ExamTypeRoom(1)
       /\ \E t \in Teachers, name \in ExamNameInputs : AddExamType(t, name)
    \/ \E t \in Teachers, id \in ExamTypeIdInputs : DeleteExamType(t, id)
    \/ \E name \in ExamNameInputs \ {""} :
         \/ SaveMarks("t1", 1, 1, name, "Term 1", <<[student_id |-> 1, score |-> 50]>>)
         \/ SaveMarks("t2", 3, 2, name, "Term 1", <<[student_id |-> 2, score |-> 50]>>)
    \/ DeleteSubject("t1", 1)

SpecExam == Init /\ [][NextExam]_vars

\* C16: deleting an owned exam type whose name is used by at least one mark
\* in a class of the teacher is answered 400 and leaves the exam type stored;
\* when no such mark exists the exam type, and nothing else, is deleted.
C16_UsedExamTypeNotDeleted ==
    \A t \in Teachers, id \in ExamTypeIdInputs :
        \A e \in exam_types :
            (e.id = id /\ e.teacher_id = t) =>
                IF \E m \in marks, c \in classes :
                       c.id = m.class_id /\ c.teacher_id = t /\ m.exam_type = e.name
                  THEN /\ DeleteExamTypeStatus(t, id) = 400
                       /\ DeleteExamTypeRows(t, id) = exam_types
                  ELSE /\ DeleteExamTypeStatus(t, id) = 200
                       /\ DeleteExamTypeRows(t, id) = exam_types \ {e}

\* a delete was refused for an exam type that marks of the teacher use, after
\* an exam type without such marks had been deleted
C16_Witness ==
    /\ resp.op = "deleteExamType" /\ resp.status = 400
    /\ \E e \in exam_types, m \in marks :
          /\ e.teacher_id = resp.teacher /\ e.name = "CAT"
          /\ m.exam_type = "CAT" /\ m.class_id \in ClassesOf(resp.teacher)
    /\ Cardinality(exam_types) < nextExamTypeId - 1

(* ------------------- properties: attendance reasons ------------------- *)
\* C17: every stored attendance record with status present has no reason: a
\* successful save whose last record for a student is present leaves that
\* student's record of the date without a reason, whatever reason was sent
\* with it and whatever was stored for the student and date before.
C17_PresentHasNoReason ==
    /\ \A a \in attendance : a.status = "present" => a.reason = NULL
    /\ \A t \in Teachers, c \in SaveClassInputs, d \in AttendanceDateInputs,
          records \in AttendanceBatches :
          SaveAttendanceStatus(t, c, d, records) = 200 =>
            \A i \in 1..Len(records) :
                LastFor(records, records[i].student_id).status = "present" =>
                    \A a \in SaveAttendanceRows(t, c, d, records) :
                        (a.student_id = records[i].student_id /\ a.date = d)
                            => a.status = "present" /\ a.reason = NULL

\* a student is stored present on one date and absent with a reason on the other
C17_Witness ==
    /\ resp.op = "saveAttendance" /\ resp.status = 200
    /\ \E a \in attendance, b \in attendance :
          /\ a.student_id = b.student_id /\ a.date # b.date
          /\ a.status = "present" /\ a.reason = NULL
          /\ b.status = "absent" /\ b.reason = "sick"

(* ========================= performance summary ======================== *)
\* Numbers of the summary.  Student averages are counted in hundredths (the
\* handler rounds them to two decimals), class_average and the attendance
\* rates in tenths (one decimal).  No average of the checked inputs lies
\* exactly between two roundings, except on a binary fraction, where toFixed
\* and round() both round up.
RoundHalfUp(n, d) == (2 * n + d) \div (2 * d)

\* limit 6
TREND_LIMIT == 6

\* the calendar of the dates the requests use: days since Monday 2026-01-05
DayNumber(date) ==
    CASE date = "2026-01-05" -> 0
      [] date = "2026-01-06" -> 1
      [] date = "2026-01-11" -> 6
      [] date = "2026-01-12" -> 7
      [] date = "2026-01-19" -> 14
      [] date = "2026-01-26" -> 21
      [] date = "2026-02-02" -> 28
      [] date = "2026-02-09" -> 35
      [] date = "2026-02-16" -> 42
      [] date = "2026-02-23" -> 49

\* date_trunc('week', a.date): the Monday of the date's week, as a day number
WeekStart(date) == 7 * (DayNumber(date) \div 7)

\* to_char(..., 'IYYY-"W"IW'): the ISO week of 2026 (2026-01-05 opens week 2)
IsoWeek(weekStart) == 2 + weekStart \div 7

RECURSIVE SumScores(_)
SumScores(rows) ==
    IF rows = {} THEN 0
    ELSE LET m == CHOOSE x \in rows : TRUE IN m.score + SumScores(rows \ {m})

RECURSIVE Ascending(_)
Ascending(S) ==
    IF S = {} THEN <<>>
    ELSE LET x == CHOOSE y \in S : \A z \in S : y <= z IN <<x>> \o Ascending(S \ {x})

RECURSIVE Descending(_)
Descending(S) ==
    IF S = {} THEN <<>>
    ELSE LET x == CHOOSE y \in S : \A z \in S : y >= z IN <<x>> \o Descending(S \ {x})

\* the marks the marksRows query reads: of the class, if the teacher owns it
SummaryMarks(teacherId, classId) ==
    {m \in marks : m.class_id = classId /\ classId \in ClassesOf(teacherId)}

\* the attendance records the two attendance queries read
SummaryAttendance(teacherId, classId) ==
    {a \in attendance : a.class_id = classId /\ classId \in ClassesOf(teacherId)}

marksRows_classWide(teacherId, classId) ==
    LET rows == SummaryMarks(teacherId, classId)
        ids == Ascending({m.student_id : m \in rows})
    IN  [i \in 1..Len(ids) |->
            [student_id |-> ids[i], sum |-> SumScores(rows), count |-> Cardinality(rows)]]

\* marksRows: one row per student_id, with avg(m.score) as the fraction sum / count
marksRows(teacherId, classId) ==
    LET rows == SummaryMarks(teacherId, classId)
        ids == Ascending({m.student_id : m \in rows})
    IN  [i \in 1..Len(ids) |->
            [student_id |-> ids[i],
             sum |-> SumScores({m \in rows : m.student_id = ids[i]}),
             count |-> Cardinality({m \in rows : m.student_id = ids[i]})]]

Min(a, b) == IF a <= b THEN a ELSE b

studentAverage_unclamped(r, scale) ==
    RoundHalfUp(100 * r.sum * toNumber(scale.average_multiplier, 1), r.count)

\* Math.min(100, Number((avg_score * average_multiplier).toFixed(2))), in hundredths
studentAverage(r, scale) ==
    Min(100 * 100, RoundHalfUp(100 * r.sum * toNumber(scale.average_multiplier, 1), r.count))

studentAverages(teacherId, classId) ==
    [i \in 1..Len(marksRows(teacherId, classId)) |->
        studentAverage(marksRows(teacherId, classId)[i], ScaleFor(teacherId))]

RECURSIVE SumSeq(_)
SumSeq(q) == IF q = <<>> THEN 0 ELSE Head(q) + SumSeq(Tail(q))

\* the scale with every threshold multiplied by k, to compare it with an
\* average that is counted in k-ths of a point
ScaledBy(scale, k) ==
    [key \in ScaleKeys |-> IF key = "average_multiplier" THEN scale[key] ELSE k * scale[key]]

emptyGradeBreakdown == [label \in {GRADE_BANDS[i][1] : i \in BandIndexes} |-> 0]

\* for (const avg of studentAverages) gradeBreakdown[gradeFromScale(avg, scale)] += 1
RECURSIVE gradeBreakdown(_, _, _)
gradeBreakdown(breakdown, averages, scale) ==
    IF averages = <<>> THEN breakdown
    ELSE gradeBreakdown(
           [breakdown EXCEPT ![gradeFromScale(Head(averages), ScaledBy(scale, 100))] = @ + 1],
           Tail(averages), scale)

trendsRows_oldestFirst(teacherId, classId) ==
    LET rows == SummaryAttendance(teacherId, classId)
        weeks == Ascending({WeekStart(a.date) : a \in rows})
        group(w) == {a \in rows : WeekStart(a.date) = w}
        all == [i \in 1..Len(weeks) |->
                  [week_start |-> IsoWeek(weeks[i]),
                   attendance_rate |->
                      RoundHalfUp(1000 * Cardinality({a \in group(weeks[i]) : a.status = "present"}),
                                  Cardinality(group(weeks[i]))),
                   min_date |-> CHOOSE d \in {DayNumber(a.date) : a \in group(weeks[i])} :
                                   \A a \in group(weeks[i]) : d <= DayNumber(a.date)]]
    IN  SubSeq(all, 1, Min(TREND_LIMIT, Len(all)))

\* the trendsRows query: one row per week, most recent min(date) first, at most 6
trendsRows(teacherId, classId) ==
    LET rows == SummaryAttendance(teacherId, classId)
        weeks == Descending({WeekStart(a.date) : a \in rows})
        group(w) == {a \in rows : WeekStart(a.date) = w}
        all == [i \in 1..Len(weeks) |->
                  [week_start |-> IsoWeek(weeks[i]),
                   attendance_rate |->
                      RoundHalfUp(1000 * Cardinality({a \in group(weeks[i]) : a.status = "present"}),
                                  Cardinality(group(weeks[i]))),
                   min_date |-> CHOOSE d \in {DayNumber(a.date) : a \in group(weeks[i])} :
                                   \A a \in group(weeks[i]) : d <= DayNumber(a.date)]]
    IN  SubSeq(all, 1, Min(TREND_LIMIT, Len(all)))

\* trendsRows.rows.sort((a, b) => a.min_date - b.min_date).map(...)
RECURSIVE sortByMinDate(_)
sortByMinDate(rows) ==
    IF rows = {} THEN <<>>
    ELSE LET r == CHOOSE x \in rows : \A y \in rows : x.min_date <= y.min_date
         IN  <<[week_start |-> r.week_start, attendance_rate |-> r.attendance_rate]>>
               \o sortByMinDate(rows \ {r})

(* ------------- GET /api/classes/:classId/performance-summary ---------- *)
PerformanceSummary(teacherId, classId) ==
    LET scale == ScaleFor(teacherId)
        averages == studentAverages(teacherId, classId)
        n == Len(averages)
        total == Cardinality(SummaryAttendance(teacherId, classId))
        present == Cardinality({a \in SummaryAttendance(teacherId, classId) : a.status = "present"})
        trends == trendsRows(teacherId, classId)
    IN  [kind |-> "summary",
         class_average |-> IF n = 0 THEN 0 ELSE RoundHalfUp(SumSeq(averages), 10 * n),
         class_grade |-> IF n = 0 THEN gradeFromScale(0, scale)
                         ELSE gradeFromScale(SumSeq(averages), ScaledBy(scale, 100 * n)),
         attendance_rate |-> IF total = 0 THEN 0 ELSE RoundHalfUp(1000 * present, total),
         grade_breakdown |-> gradeBreakdown(emptyGradeBreakdown, averages, scale),
         trends |-> sortByMinDate({trends[i] : i \in 1..Len(trends)})]

GetPerformanceSummary(teacherId, classId) ==
    /\ RespondWith("performanceSummary", teacherId, 200, PerformanceSummary(teacherId, classId))
    /\ UNCHANGED <<classes, students, subjects, attendance, marks,
                   timetable_lessons, timetable_history, nextLessonId, nextHistoryId,
                   grade_settings, exam_types, nextExamTypeId,
                   restVars>>

(* ------------------- summaries of marked classes ---------------------- *)
\* request values: student 1 of class 1 with up to three marks, student 3 with
\* one, the student of class 3, the default ladder with each multiplier
SummaryExamInputs == {"CAT", "Mid Term", "End Term"}
SummaryScoreInputs == {40, 55, 100}
SummaryMultiplierInputs == {1, 2, 3}

NextSummary ==
    \/ \E e \in SummaryExamInputs, x \in SummaryScoreInputs :
          SaveMarks("t1", 1, 1, e, "Term 1", <<[student_id |-> 1, score |-> x]>>)
    \/ \E x \in SummaryScoreInputs :
          SaveMarks("t1", 1, 1, "CAT", "Term 1", <<[student_id |-> 3, score |-> x]>>)
    \/ SaveMarks("t2", 3, 2, "CAT", "Term 1", <<[student_id |-> 2, score |-> 55]>>)
    \/ \E m \in SummaryMultiplierInputs : PutGradeSettings("t1", ScaleOf(DefaultLadder, m))
    \/ \E t \in Teachers, c \in SaveClassInputs : GetPerformanceSummary(t, c)

SpecSummary == Init /\ [][NextSummary]_vars

\* the students with at least one mark in the class, for its teacher
MarkedStudents(teacherId, classId) == {m.student_id : m \in SummaryMarks(teacherId, classId)}

\* the student's marks in the class, as the fraction sum / count
RawAverage(teacherId, classId, studentId) ==
    LET own == {m \in SummaryMarks(teacherId, classId) : m.student_id = studentId}
    IN  [sum |-> SumScores(own), count |-> Cardinality(own)]

\* the student's adjusted average, in hundredths
AdjustedAverage(teacherId, classId, studentId) ==
    studentAverage(RawAverage(teacherId, classId, studentId), ScaleFor(teacherId))

RECURSIVE SumAdjusted(_, _, _)
SumAdjusted(teacherId, classId, ids) ==
    IF ids = {} THEN 0
    ELSE LET s == CHOOSE x \in ids : TRUE
         IN  AdjustedAverage(teacherId, classId, s) + SumAdjusted(teacherId, classId, ids \ {s})

RECURSIVE SumCounts(_, _)
SumCounts(breakdown, labels) ==
    IF labels = {} THEN 0
    ELSE LET l == CHOOSE x \in labels : TRUE IN breakdown[l] + SumCounts(breakdown, labels \ {l})

\* C18: in the performance summary of a class, every bucket of grade_breakdown
\* counts the students with a mark in the class whose adjusted average
\* gradeFromScale puts in that bucket, so every such student is counted once
\* and the counts sum to the number of such students; class_average is the
\* mean of those adjusted averages (to one decimal), and 0 without marks.
C18_BreakdownCountsEachStudentOnce ==
    \A t \in Teachers, c \in ClassIds :
        LET summary == PerformanceSummary(t, c)
            ids == MarkedStudents(t, c)
            grade == [s \in ids |->
                        gradeFromScale(AdjustedAverage(t, c, s), ScaledBy(ScaleFor(t), 100))]
        IN  /\ DOMAIN summary.grade_breakdown = {GRADE_BANDS[i][1] : i \in BandIndexes}
            /\ \A label \in DOMAIN summary.grade_breakdown :
                  summary.grade_breakdown[label] = Cardinality({s \in ids : grade[s] = label})
            /\ SumCounts(summary.grade_breakdown, DOMAIN summary.grade_breakdown)
                  = Cardinality(ids)
            /\ ids = {} => summary.class_average = 0
            /\ ids # {} =>
                  summary.class_average
                    = RoundHalfUp(SumAdjusted(t, c, ids), 10 * Cardinality(ids))

\* a summary of class 1 was answered for two marked students in different
\* buckets, one of them with several marks
C18_Witness ==
    /\ resp.op = "performanceSummary" /\ resp.teacher = "t1"
    /\ resp.body = PerformanceSummary("t1", 1)
    /\ MarkedStudents("t1", 1) = {1, 3}
    /\ RawAverage("t1", 1, 1).count > 1
    /\ \E a, b \in DOMAIN resp.body.grade_breakdown :
          a # b /\ resp.body.grade_breakdown[a] = 1 /\ resp.body.grade_breakdown[b] = 1
    /\ resp.body.class_average > 0

\* C19: in the performance summary the multiplier is 1 or 2 and a student's
\* adjusted average is min(100, raw average x multiplier), to two decimals:
\* exactly 100 when the product reaches 100, so at multiplier 2 for every raw
\* average of 50 or more, and the product otherwise; neither an adjusted
\* average nor class_average exceeds 100.
C19_AdjustedAverageIsClamped ==
    \A t \in Teachers, c \in ClassIds :
        LET multiplier == ScaleFor(t).average_multiplier
            averages == studentAverages(t, c)
        IN  /\ multiplier \in {1, 2}
            /\ PerformanceSummary(t, c).class_average <= 10 * 100
            /\ \A i \in 1..Len(averages) :
                  LET raw == RawAverage(t, c, marksRows(t, c)[i].student_id)
                      product == 100 * raw.sum * multiplier
                  IN  /\ averages[i] <= 100 * 100
                      /\ product >= 100 * 100 * raw.count => averages[i] = 100 * 100
                      /\ (multiplier = 2 /\ raw.sum >= 50 * raw.count) => averages[i] = 100 * 100
                      /\ product < 100 * 100 * raw.count =>
                            /\ 2 * (averages[i] * raw.count - product) <= raw.count
                            /\ 2 * (product - averages[i] * raw.count) <= raw.count

\* a summary of class 1 was answered at multiplier 2 with one student of raw
\* average 55, adjusted to 100, and one below 50
C19_Witness ==
    /\ resp.op = "performanceSummary" /\ resp.teacher = "t1"
    /\ resp.body = PerformanceSummary("t1", 1)
    /\ ScaleFor("t1").average_multiplier = 2
    /\ RawAverage("t1", 1, 1).count > 0
    /\ RawAverage("t1", 1, 1).sum = 55 * RawAverage("t1", 1, 1).count
    /\ AdjustedAverage("t1", 1, 1) = 100 * 100
    /\ RawAverage("t1", 1, 3).count > 0
    /\ RawAverage("t1", 1, 3).sum < 50 * RawAverage("t1", 1, 3).count
    /\ resp.body.class_average < 10 * 100

(* ------------------------ attendance trends --------------------------- *)
\* request values: three days of the week of 2026-01-05 (its Monday, Tuesday
\* and Sunday), marked present or absent, and the Mondays of the seven weeks
\* after it, marked present
FirstWeekDates == {"2026-01-05", "2026-01-06", "2026-01-11"}
LaterMondays == {"2026-01-12", "2026-01-19", "2026-01-26", "2026-02-02",
                 "2026-02-09", "2026-02-16", "2026-02-23"}

NextTrends ==
    \/ \E d \in FirstWeekDates, x \in {"present", "absent"} :
          SaveAttendance("t1", 1, d, <<[student_id |-> 1, status |-> x, reason |-> ""]>>)
    \/ \E d \in LaterMondays :
          SaveAttendance("t1", 1, d, <<[student_id |-> 1, status |-> "present", reason |-> ""]>>)
    \/ \E t \in Teachers : GetPerformanceSummary(t, 1)

SpecTrends == Init /\ [][NextTrends]_vars

\* the calendar weeks (by their Monday) with attendance records of the class
RecordedWeeks(teacherId, classId) ==
    {WeekStart(a.date) : a \in SummaryAttendance(teacherId, classId)}

\* the 6 most recent of them: those with fewer than 6 recorded weeks after them
RecentWeeks(teacherId, classId) ==
    {w \in RecordedWeeks(teacherId, classId) :
        Cardinality({v \in RecordedWeeks(teacherId, classId) : v > w}) < 6}

\* C20: the trends of the performance summary have exactly one entry for each
\* of the 6 most recent calendar weeks with attendance records of the class
\* (for every such week when there are fewer), ordered oldest week first.
C20_TrendsAreSixMostRecentWeeksAscending ==
    \A t \in Teachers, c \in ClassIds :
        LET trends == PerformanceSummary(t, c).trends
            recent == RecentWeeks(t, c)
        IN  /\ Len(trends) = Cardinality(recent)
            /\ {trends[i].week_start : i \in 1..Len(trends)} = {IsoWeek(w) : w \in recent}
            /\ \A i, j \in 1..Len(trends) :
                  i < j => trends[i].week_start < trends[j].week_start

\* a summary was answered for a class with records in eight weeks, three of
\* them in the oldest week: the six trends start at the third week
C20_Witness ==
    /\ resp.op = "performanceSummary" /\ resp.teacher = "t1"
    /\ resp.body = PerformanceSummary("t1", 1)
    /\ Cardinality(RecordedWeeks("t1", 1)) = 8
    /\ Cardinality({a \in attendance : a.date \in FirstWeekDates}) = 3
    /\ Len(resp.body.trends) = 6
    /\ resp.body.trends[1].week_start = IsoWeek(WeekStart("2026-01-19"))
    /\ resp.body.trends[6].week_start = IsoWeek(WeekStart("2026-02-23"))

(* ===================== exam types: default seeding ==================== *)
\* request values: t1 reads, adds "Quiz" and deletes; ids for two seedings
SeedIdInputs == 1..(MaxExamTypes + Len(DEFAULT_EXAM_TYPES))
SeedRoom == nextExamTypeId <= MaxExamTypes

NextSeed ==
    \/ /\ SeedRoom
       /\ \E t \in Teachers : GetExamTypes(t)
    \/ /\ SeedRoom
       /\ AddExamType("t1", "Quiz")
    \/ \E id \in SeedIdInputs : DeleteExamType("t1", id)

SpecSeed == Init /\ [][NextSeed]_vars

ExamTypesOf(rows, teacherId) == {e \in rows : e.teacher_id = teacherId}

DefaultNames == {DEFAULT_EXAM_TYPES[i] : i \in 1..Len(DEFAULT_EXAM_TYPES)}

\* C21 as stated: a GET /exam-types of a teacher whose GET /exam-types was
\* answered before adds no exam type, and the first one inserts the four
\* defaults.
C21_SeededOnFirstGetOnly_AsStated ==
    [][\A t \in Teachers :
          (resp'.op = "getExamTypes" /\ resp'.teacher = t) =>
              IF t \in examTypesRead
                THEN exam_types' = exam_types
                ELSE DefaultNames \subseteq {e.name : e \in ExamTypesOf(exam_types', t)}]_vars

\* C21: a GET /exam-types inserts the four default exam types for the teacher
\* exactly when the teacher has no exam type at that moment, and adds nothing
\* otherwise; every other request that adds an exam type is a POST
\* /exam-types and adds one for its own teacher.
C21_SeededWhenTeacherHasNone ==
    [][\A t \in Teachers :
          /\ (resp'.op = "getExamTypes" /\ resp'.teacher = t) =>
                IF ExamTypesOf(exam_types, t) = {}
                  THEN /\ exam_types \subseteq exam_types'
                       /\ {e.name : e \in exam_types' \ exam_types} = DefaultNames
                       /\ Cardinality(exam_types' \ exam_types) = Len(DEFAULT_EXAM_TYPES)
                       /\ \A e \in exam_types' \ exam_types : e.teacher_id = t
                  ELSE exam_types' = exam_types
          /\ (ExamTypesOf(exam_types', t) \ exam_types # {} /\ resp'.op # "getExamTypes") =>
                /\ resp'.op = "addExamType" /\ resp'.teacher = t
                /\ Cardinality(exam_types' \ exam_types) = 1]_vars

\* the teacher read the exam types, deleted all four defaults and read them
\* again: the defaults are stored a second time, under new ids
C21_Witness ==
    /\ resp.op = "getExamTypes" /\ resp.teacher = "t1"
    /\ {e.name : e \in ExamTypesOf(exam_types, "t1")} = DefaultNames
    /\ \A e \in ExamTypesOf(exam_types, "t1") : e.id > Len(DEFAULT_EXAM_TYPES)

(* =================== timetable page: the weekly view ================== *)
\* Dates are days since the Monday of instant 0; the page compares them as
\* YYYY-MM-DD strings, which orders them as the calendar does.

\* formatDateLocal(new Date(item.recorded_at))
DateOf(instant) == instant \div TicksPerDay

\* Date.getDay(): 0 on Sunday, 1 on Monday
getDay(date) == (date + 1) % 7

weekBounds_sundayFirst(dateValue) ==
    [start |-> dateValue - getDay(dateValue), end |-> dateValue - getDay(dateValue) + 6]

weekBounds(dateValue) ==
    LET day == (getDay(dateValue) + 6) % 7
    IN  [start |-> dateValue - day, end |-> dateValue - day + 6]

\* the rows GET /api/classes/:classId/timetable/history answers with
HistoryOf(teacherId, classId) ==
    {h \in timetable_history : h.class_id = classId /\ classId \in ClassesOf(teacherId)}

\* the rows GET /api/classes/:classId/timetable answers with
LessonsOf(teacherId, classId) ==
    {l \in timetable_lessons : l.class_id = classId /\ classId \in ClassesOf(teacherId)}

RECURSIVE Orderings(_)
Orderings(S) ==
    IF S = {} THEN {<<>>}
    ELSE UNION {{<<x>> \o q : q \in Orderings(S \ {x})} : x \in S}

\* order by h.recorded_at desc: rows of one instant come in any order
HistoryResponses(teacherId, classId) ==
    {q \in Orderings(HistoryOf(teacherId, classId)) :
        \A i, j \in 1..Len(q) : i < j => q[i].recorded_at >= q[j].recorded_at}

\* historyItems.forEach(...) of weeklyState: the map latestByLesson
RECURSIVE latestByLesson(_, _, _)
latestByLesson(latest, historyItems, bounds) ==
    IF historyItems = <<>> THEN latest
    ELSE LET item == Head(historyItems)
             lessonId == item.lesson_id
             recordDate == DateOf(item.recorded_at)
         IN  IF lessonId = NoId THEN latestByLesson(latest, Tail(historyItems), bounds)
             ELSE IF recordDate < bounds.start \/ recordDate > bounds.end
               THEN latestByLesson(latest, Tail(historyItems), bounds)
             ELSE IF lessonId \notin DOMAIN latest
                     \/ item.recorded_at > latest[lessonId].recorded_at
               THEN latestByLesson(
                      [x \in DOMAIN latest \cup {lessonId} |->
                          IF x = lessonId THEN item ELSE latest[x]],
                      Tail(historyItems), bounds)
             ELSE latestByLesson(latest, Tail(historyItems), bounds)

\* the Status cell of a lesson's row: Pending without weeklyEntry, else the
\* entry's status (and which entry it is)
weeklyEntry(latest, lessonId) ==
    IF lessonId \in DOMAIN latest
      THEN [status |-> latest[lessonId].status, entry |-> latest[lessonId].id]
      ELSE [status |-> "pending", entry |-> NoId]

\* what the page shows for the lessons, by lesson id
weeklyState(lessons, historyItems, selectedDate) ==
    [id \in {l.id : l \in lessons} |->
        weeklyEntry(latestByLesson(<<>>, historyItems, weekBounds(selectedDate)), id)]

\* loadClassData and the render of the page for selectedDate
ViewWeek(teacherId, classId, selectedDate) ==
    /\ \E historyItems \in HistoryResponses(teacherId, classId) :
          RespondWith("weeklyState", teacherId, 200,
                      [kind |-> "week", selectedDate |-> selectedDate,
                       shown |-> weeklyState(LessonsOf(teacherId, classId),
                                             historyItems, selectedDate)])
    /\ UNCHANGED <<classes, students, subjects, attendance, marks,
                   timetable_lessons, timetable_history, nextLessonId, nextHistoryId,
                   grade_settings, exam_types, nextExamTypeId, restVars>>

\* time passes
AdvanceClock(instant) ==
    /\ instant > now
    /\ now' = instant
    /\ UNCHANGED <<classes, students, subjects, attendance, marks,
                   timetable_lessons, timetable_history, nextLessonId, nextHistoryId,
                   resp, grade_settings, exam_types, nextExamTypeId, examTypesRead,
                   pending, sessionVars>>

\* request values: the first and second instant of a Monday, the last of the
\* Sunday that ends its week, the first of the next Monday and of the Tuesday
\* after it; the page shows the week of that Monday, of that Sunday or of the
\* Wednesday after them
Instant(date, tick) == date * TicksPerDay + tick
ClockInputs == {Instant(0, 1), Instant(6, TicksPerDay - 1), Instant(7, 0), Instant(8, 0)}
ViewDateInputs == {0, 6, 9}

NextWeek ==
    \/ /\ LessonRoom
       /\ \E r \in HistRangeInputs : CreateLesson("t1", 1, 1, "Monday", r[1], r[2])
    \/ /\ HistoryRoom
       /\ \E id \in LessonIdInputs, m \in MarkInputs : PatchLesson("t1", id, m[1], m[2])
    \/ \E id \in LessonIdInputs : DeleteLesson("t1", id)
    \/ \E instant \in ClockInputs : AdvanceClock(instant)
    \/ \E t \in Teachers, d \in ViewDateInputs : ViewWeek(t, 1, d)

SpecWeek == Init /\ [][NextWeek]_vars

\* the history entries of the lesson recorded from the Monday to the Sunday
\* of the week of the date
EntriesInWeek(teacherId, classId, lessonId, date) ==
    {h \in HistoryOf(teacherId, classId) :
        /\ h.lesson_id = lessonId
        /\ DateOf(h.recorded_at) \div 7 = date \div 7}

\* C22: in the weekly view of a selected date, the state shown for lesson L is
\* the status of an entry of L with the greatest recorded_at among the entries
\* of L recorded in the Monday-to-Sunday week of that date, and pending when
\* L has no entry in that week, whatever L's stored attended value is.
C22_WeeklyViewShowsLatestEntry ==
    \A t \in Teachers, d \in ViewDateInputs :
        \A historyItems \in HistoryResponses(t, 1), l \in LessonsOf(t, 1) :
            LET shown == weeklyState(LessonsOf(t, 1), historyItems, d)[l.id]
                entries == EntriesInWeek(t, 1, l.id, d)
            IN  IF entries = {} THEN shown.status = "pending"
                ELSE \E h \in entries :
                        /\ \A g \in entries : g.recorded_at <= h.recorded_at
                        /\ shown.status = h.status
                        /\ shown.entry = h.id

\* a lesson was marked twice in the week that is shown, on its Monday and on
\* its Sunday with a different status, and the view shows the Sunday entry
C22_Witness ==
    /\ resp.op = "weeklyState" /\ resp.teacher = "t1" /\ resp.body.selectedDate = 0
    /\ \E l \in timetable_lessons, a \in timetable_history, b \in timetable_history :
          /\ a.lesson_id = l.id /\ b.lesson_id = l.id
          /\ DateOf(a.recorded_at) = 0 /\ DateOf(b.recorded_at) = 6
          /\ a.status # b.status
          /\ l.id \in DOMAIN resp.body.shown
          /\ resp.body.shown[l.id] = [status |-> b.status, entry |-> b.id]

(* ============ lesson creation, one database statement at a time ======= *)
\* The handler of POST /api/classes/:classId/timetable awaits its queries one
\* after the other, outside any transaction, so the statements of two
\* requests interleave.  The class lookup and the collision scan are one step
\* here (no request of these specifications changes the classes).

CreateScanStatus_noScan(teacherId, classId, day, startTime, endTime) ==
    IF ~classOk(classId, teacherId) THEN 404
    ELSE IF startTime = NoTime \/ endTime = NoTime THEN 500
    ELSE 0

\* the answer the handler gives after the scan, 0 when it goes on to insert
CreateScanStatus(teacherId, classId, day, startTime, endTime) ==
    IF ~classOk(classId, teacherId) THEN 404
    ELSE IF startTime = NoTime \/ endTime = NoTime THEN 500
    ELSE IF findTimetableCollision(teacherId, day, startTime, endTime, NoId) # {} THEN 409
    ELSE 0

\* the request between its scan and its insert; seen: the lessons stored when
\* the scan ran
CreateRequest(teacherId, classId, subjectId, day, startTime, endTime) ==
    [kind |-> "createLesson", teacher |-> teacherId, class_id |-> classId,
     subject_id |-> subjectId, day_of_week |-> day,
     start_time |-> startTime, end_time |-> endTime,
     seen |-> {l.id : l \in timetable_lessons}]

CreateScan(teacherId, classId, subjectId, day, startTime, endTime) ==
    LET status == CreateScanStatus(teacherId, classId, day, startTime, endTime)
    IN  /\ IF status = 0
             THEN /\ pending' = pending \cup
                        {CreateRequest(teacherId, classId, subjectId, day, startTime, endTime)}
                  /\ UNCHANGED resp
             ELSE /\ Respond("createLesson", teacherId, status)
                  /\ UNCHANGED pending
        /\ UNCHANGED <<classes, students, subjects, attendance, marks,
                       timetable_lessons, timetable_history, nextLessonId, nextHistoryId,
                       grade_settings, exam_types, nextExamTypeId, examTypesRead, now, sessionVars>>

\* the answer to the insert statement
CreateInsertStatus(r) ==
    IF r.day_of_week \notin ValidDays \/ ~SubjectFkOk(r.subject_id) THEN 500
    ELSE IF SlotTaken(r.class_id, r.day_of_week, r.start_time, r.end_time, NoId) THEN 409
    ELSE 200

CreateInsert(r) ==
    /\ r \in pending /\ r.kind = "createLesson"
    /\ pending' = pending \ {r}
    /\ Respond("createLesson", r.teacher, CreateInsertStatus(r))
    /\ IF CreateInsertStatus(r) = 200
         THEN /\ timetable_lessons' = timetable_lessons \cup
                    {NewLesson(nextLessonId, r.class_id, r.subject_id, r.day_of_week,
                               r.start_time, r.end_time, NULL, NoId)}
              /\ nextLessonId' = nextLessonId + 1
         ELSE UNCHANGED <<timetable_lessons, nextLessonId>>
    /\ UNCHANGED <<classes, students, subjects, attendance, marks,
                   timetable_history, nextHistoryId,
                   grade_settings, exam_types, nextExamTypeId, examTypesRead, now, sessionVars>>

\* request values: every teacher creates lessons on one day in its classes
PendingRoom == Cardinality(pending) < MaxPending

NextRace ==
    \/ /\ PendingRoom
       /\ \E t \in Teachers, c \in ClassIds, r \in RangeInputs :
            CreateScan(t, c, 1, "Monday", r[1], r[2])
    \/ /\ LessonRoom
       /\ \E r \in pending : CreateInsert(r)

SpecRace == Init /\ [][NextRace]_vars

\* C23: the scan and the insert of lesson creation are separate steps: a
\* create stores a lesson that overlaps a stored lesson of the same teacher
\* only if that lesson was inserted between the create's scan and its insert,
\* never when the create runs alone from scan to insert; two requests whose
\* scans both come before both inserts do store two overlapping lessons.
C23_OverlapOnlyByInterleaving ==
    [][\A r \in pending :
          (r \notin pending' /\ resp'.status = 200) =>
              \A b \in timetable_lessons' \ timetable_lessons, a \in timetable_lessons :
                  (/\ TeacherOfClass(a.class_id) = TeacherOfClass(b.class_id)
                   /\ RangesOverlap(a.day_of_week, a.start_time, a.end_time,
                                    b.day_of_week, b.start_time, b.end_time))
                      => a.id \notin r.seen]_vars

\* both creates were answered 200 and two overlapping lessons of t1 are
\* stored, in different classes
C23_Witness ==
    /\ pending = {} /\ resp.op = "createLesson" /\ resp.status = 200
    /\ \E a \in timetable_lessons, b \in timetable_lessons :
          /\ a.id # b.id /\ a.class_id = 1 /\ b.class_id = 2
          /\ RangesOverlap(a.day_of_week, a.start_time, a.end_time,
                           b.day_of_week, b.start_time, b.end_time)

(* ========= attendance save, one database statement at a time ========== *)
\* The handler runs BEGIN, one upsert per record and COMMIT on its own
\* connection.  An upsert locks the row of its (student_id, date) until the
\* transaction ends: the upsert of another transaction on that key waits, and
\* when two transactions wait for each other the database ends one of them
\* with "deadlock detected".  Rows written by a transaction are stored for the
\* others at COMMIT.

\* the request inside its transaction; done: the records upserted so far
SaveRequest(teacherId, classId, date, records) ==
    [kind |-> "saveAttendance", teacher |-> teacherId, class_id |-> classId,
     date |-> date, records |-> records, done |-> 0]

\* the keys whose rows the transaction has locked
KeysHeld(r) == {<<r.records[i].student_id, r.date>> : i \in 1..r.done}

\* the key of the upsert the transaction runs next
NextKey(r) == <<r.records[r.done + 1].student_id, r.date>>

\* the upsert waits for another transaction's lock
Blocked(r) ==
    /\ r.done < Len(r.records)
    /\ \E o \in pending \ {r} : o.kind = "saveAttendance" /\ NextKey(r) \in KeysHeld(o)

\* if (!date) return 400; client.query("BEGIN")
SaveBegin(teacherId, classId, date, records) ==
    /\ IF date = ""
         THEN Respond("saveAttendance", teacherId, 400) /\ UNCHANGED pending
         ELSE /\ pending' = pending \cup {SaveRequest(teacherId, classId, date, records)}
              /\ UNCHANGED resp
    /\ UNCHANGED <<classes, students, subjects, attendance, marks,
                   timetable_lessons, timetable_history, nextLessonId, nextHistoryId,
                   grade_settings, exam_types, nextExamTypeId, examTypesRead, now, sessionVars>>

\* the next upsert of the loop; a refused statement goes to ROLLBACK and 500
SaveWrite(r) ==
    /\ r \in pending /\ r.kind = "saveAttendance"
    /\ r.done < Len(r.records)
    /\ ~Blocked(r)
    /\ IF AttendanceWriteOk(r.class_id, r.date, r.records[r.done + 1])
         THEN /\ pending' = (pending \ {r}) \cup {[r EXCEPT !.done = @ + 1]}
              /\ UNCHANGED resp
         ELSE /\ pending' = pending \ {r}
              /\ Respond("saveAttendance", r.teacher, 500)
    /\ UNCHANGED <<classes, students, subjects, attendance, marks,
                   timetable_lessons, timetable_history, nextLessonId, nextHistoryId,
                   grade_settings, exam_types, nextExamTypeId, examTypesRead, now, sessionVars>>

\* client.query("COMMIT"); res.json({ ok: true })
SaveCommit(r) ==
    /\ r \in pending /\ r.kind = "saveAttendance"
    /\ r.done = Len(r.records)
    /\ pending' = pending \ {r}
    /\ attendance' = RunAttendance(attendance, r.class_id, r.date, r.records).rows
    /\ Respond("saveAttendance", r.teacher, 200)
    /\ UNCHANGED <<classes, students, subjects, marks,
                   timetable_lessons, timetable_history, nextLessonId, nextHistoryId,
                   grade_settings, exam_types, nextExamTypeId, examTypesRead, now, sessionVars>>

\* two transactions wait for each other: the database fails the upsert of
\* one; catch: ROLLBACK, throw, and the error middleware answers 500
SaveDeadlock(r) ==
    /\ r \in pending /\ r.kind = "saveAttendance"
    /\ Blocked(r)
    /\ \E o \in pending \ {r} :
          /\ o.kind = "saveAttendance"
          /\ NextKey(r) \in KeysHeld(o)
          /\ o.done < Len(o.records) /\ NextKey(o) \in KeysHeld(r)
    /\ pending' = pending \ {r}
    /\ Respond("saveAttendance", r.teacher, 500)
    /\ UNCHANGED <<classes, students, subjects, attendance, marks,
                   timetable_lessons, timetable_history, nextLessonId, nextHistoryId,
                   grade_settings, exam_types, nextExamTypeId, examTypesRead, now, sessionVars>>

\* request values: the two students of class 1, present or absent, on one
\* date, in batches of one or two records
ConcurrentRecordInputs ==
    {[student_id |-> s, status |-> x, reason |-> ""] : s \in {1, 3}, x \in {"present", "absent"}}
ConcurrentBatches == SeqsUpTo(ConcurrentRecordInputs, MaxBatch) \ {<<>>}

NextSaves ==
    \/ /\ PendingRoom
       /\ \E d \in {"2026-01-05", ""}, records \in ConcurrentBatches :
            SaveBegin("t1", 1, d, records)
    \/ \E r \in pending : SaveWrite(r)
    \/ \E r \in pending : SaveCommit(r)
    \/ \E r \in pending : SaveDeadlock(r)

SpecSaves == Init /\ [][NextSaves]_vars

\* C24: attendance saves that run concurrently and write the same keys are
\* all answered 200, without a conflict error, and leave one record per
\* (student, date).
C24_ConcurrentSavesBothSucceed ==
    /\ \A a \in attendance, b \in attendance :
          (a.student_id = b.student_id /\ a.date = b.date) => a = b
    /\ (resp.op = "saveAttendance" /\ resp.status # 400) => resp.status = 200

(* ================= marking with any attended value ==================== *)
\* request values: the attended values a PATCH body can carry: true, false,
\* null, a truthy non-boolean ("yes", 1), a falsy one or none at all (0, "",
\* undefined)
AttendedInputs == {"true", "false", NULL, "truthy", "falsy"}

NextMark ==
    \/ /\ LessonRoom
       /\ \E r \in HistRangeInputs : CreateLesson("t1", 1, 1, "Monday", r[1], r[2])
    \/ /\ HistoryRoom
       /\ \E id \in LessonIdInputs, a \in AttendedInputs : PatchLesson("t1", id, a, "")
    \/ /\ LessonRoom
       /\ \E id \in LessonIdInputs, r \in HistRangeInputs :
            Compensate("t1", id, "Tuesday", r[1], r[2], "", "")

SpecMark == Init /\ [][NextMark]_vars

\* C25: a lesson whose stored attended value is not null has at least one
\* history entry, and the entry appended last for it has the matching status
\* (attended for true, not_attended for false), whatever value the PATCH
\* body carried for attended.
C25_AttendedHasMatchingHistory ==
    \A l \in timetable_lessons :
        l.attended # NULL =>
            \E h \in timetable_history :
                /\ h.lesson_id = l.id
                /\ \A g \in timetable_history : g.lesson_id = l.id => g.id <= h.id
                /\ h.status = IF l.attended = "true" THEN "attended" ELSE "not_attended"

(* ============ compensation, read and transaction apart ================ *)
\* The compensate handler selects the lesson and tests lessonRow.attended
\* before it opens its transaction; requests that are answered in between
\* change the lesson the transaction then flags.

\* the answer after the select and the input checks, 0 when the handler goes
\* on to its transaction
CompensateReadStatus(teacherId, id, day, startTime, endTime) ==
    IF OwnedLessons(id, teacherId) = {} THEN 404
    ELSE IF ~CanCompensate(TheLesson(id, teacherId)) THEN 400
    ELSE IF day = "" \/ startTime = NoTime \/ endTime = NoTime THEN 400
    ELSE 0

CompensateRequest(teacherId, id, day, startTime, endTime, note, date) ==
    [kind |-> "compensate", teacher |-> teacherId, lessonRow |-> TheLesson(id, teacherId),
     day_of_week |-> day, start_time |-> startTime, end_time |-> endTime,
     compensation_note |-> note, compensation_date |-> date]

CompensateRead(teacherId, id, day, startTime, endTime, note, date) ==
    LET status == CompensateReadStatus(teacherId, id, day, startTime, endTime)
    IN  /\ IF status = 0
             THEN /\ pending' = pending \cup
                        {CompensateRequest(teacherId, id, day, startTime, endTime, note, date)}
                  /\ UNCHANGED resp
             ELSE /\ Respond("compensate", teacherId, status)
                  /\ UNCHANGED pending
        /\ UNCHANGED <<classes, students, subjects, attendance, marks,
                       timetable_lessons, timetable_history, nextLessonId, nextHistoryId,
                       grade_settings, exam_types, nextExamTypeId, examTypesRead, now, sessionVars>>

\* the transaction on the table as it is now; the insert is refused when the
\* lesson it refers to (compensation_for_lesson_id) has been deleted
CompensateCommitRun(r) ==
    IF \A l \in timetable_lessons : l.id # r.lessonRow.id
      THEN [ok |-> FALSE, rows |-> timetable_lessons]
      ELSE CompensateRun(r.lessonRow, r.day_of_week, r.start_time, r.end_time,
                         r.compensation_note, r.compensation_date)

CompensateCommit(r) ==
    /\ r \in pending /\ r.kind = "compensate"
    /\ pending' = pending \ {r}
    /\ Respond("compensate", r.teacher, IF CompensateCommitRun(r).ok THEN 200 ELSE 500)
    /\ timetable_lessons' = Transaction(CompensateCommitRun(r), timetable_lessons)
    /\ nextLessonId' = IF CompensateCommitRun(r).ok THEN nextLessonId + 1 ELSE nextLessonId
    /\ UNCHANGED <<classes, students, subjects, attendance, marks,
                   timetable_history, nextHistoryId,
                   grade_settings, exam_types, nextExamTypeId, examTypesRead, now, sessionVars>>

NextComp ==
    \/ /\ LessonRoom
       /\ \E r \in HistRangeInputs : CreateLesson("t1", 1, 1, "Monday", r[1], r[2])
    \/ /\ HistoryRoom
       /\ \E id \in LessonIdInputs, a \in {"true", "false"} : PatchLesson("t1", id, a, "")
    \/ /\ PendingRoom
       /\ \E id \in LessonIdInputs, r \in HistRangeInputs :
            CompensateRead("t1", id, "Tuesday", r[1], r[2], "", "")
    \/ /\ LessonRoom
       /\ \E r \in pending : CompensateCommit(r)
    \/ \E id \in LessonIdInputs, r \in HistRangeInputs :
         UpdateLesson("t1", id, 1, "Monday", r[1], r[2])
    \/ \E id \in LessonIdInputs : DeleteLesson("t1", id)

SpecComp == Init /\ [][NextComp]_vars

\* C26: every stored lesson with compensated = true has attended = false.
C26_CompensatedIsNotAttended ==
    \A l \in timetable_lessons : l.compensated => l.attended = "false"

(* ------------------- properties: class of a record -------------------- *)
\* C27: every attendance record's class_id is the class of its student, and
\* every mark's class_id is the class of its student and of its subject.
C27_RecordClassIsStudentClass ==
    /\ \A a \in attendance :
          \E s \in students : s.id = a.student_id /\ s.class_id = a.class_id
    /\ \A k \in marks :
          /\ \E s \in students : s.id = k.student_id /\ s.class_id = k.class_id
          /\ \E sub \in subjects : sub.id = k.subject_id /\ sub.class_id = k.class_id

(* ------------ lessons written with any pair of clock times ------------- *)
\* what a request can carry as start_time and end_time: any two times, the
\* handlers reading them from the body as they come
AnyRangeInputs == Times \X Times

NextTimes ==
    \/ /\ LessonRoom
       /\ \E r \in AnyRangeInputs : CreateLesson("t1", 1, 1, "Monday", r[1], r[2])
    \/ \E r \in AnyRangeInputs : UpdateLesson("t1", 1, 1, "Monday", r[1], r[2])
    \/ /\ timetable_history = {}
       /\ PatchLesson("t1", 1, "false", "")
    \/ /\ LessonRoom
       /\ \E r \in AnyRangeInputs :
            Compensate("t1", 1, "Wednesday", r[1], r[2], "", "")

SpecTimes == Init /\ [][NextTimes]_vars

\* C28: every stored lesson has start_time strictly before end_time, whichever
\* of lesson create, lesson update or compensation wrote it (a spreadsheet
\* import writes through lesson create).
C28_StartBeforeEnd ==
    \A l \in timetable_lessons : l.start_time < l.end_time

(* ------------- properties: the compensated flag and its lesson --------- *)
\* C29: a lesson has compensated = true if and only if at least one stored
\* lesson has compensation_for_lesson_id equal to its id, in every state
\* reached by compensating and deleting lessons.
C29_CompensatedIffCompensationExists ==
    \A l \in timetable_lessons :
        l.compensated <=> \E k \in timetable_lessons : k.compensation_for_lesson_id = l.id

(* ------------------ the browser session (AuthProvider) ----------------- *)
\* the tables, which no step of the session writes
tableVars == <<classes, students, subjects, attendance, marks,
               timetable_lessons, timetable_history, nextLessonId, nextHistoryId,
               resp, grade_settings, exam_types, nextExamTypeId, examTypesRead, now>>

\* api(path, options): the Authorization header carries the token stored
\* when the request is sent.  `who` is the teacher the credentials of a login
\* or the account of a registration stand for, NULL when the server refuses them
SessionRequest(kind, who) == [kind |-> kind, token |-> token, who |-> who]

\* GET /api/me behind auth: 401 without a token, else the row of the teacher
\* the token names
MeAnswer(r) ==
    IF r.token = NULL THEN [ok |-> FALSE, user |-> NULL]
    ELSE [ok |-> TRUE, user |-> r.token]

\* POST /api/auth/login and /api/auth/register: token and teacher, or an error
AuthAnswer(r) ==
    IF r.who = NULL THEN [ok |-> FALSE, token |-> NULL, teacher |-> NULL]
    ELSE [ok |-> TRUE, token |-> r.who, teacher |-> r.who]

\* a page load in the tab: AuthProvider is constructed anew, the callbacks of
\* the page before are gone, sessionStorage stays
Reload ==
    /\ teacher' = NULL
    /\ loading' = TRUE
    /\ pending' = {}
    /\ UNCHANGED <<tableVars, token>>

\* the mount effect has not run yet
MountDue == loading /\ ~\E r \in pending : r.kind = "me"

\* the mount effect up to the request
Mount ==
    /\ MountDue
    /\ IF token = NULL
         THEN /\ loading' = FALSE
              /\ UNCHANGED pending
         ELSE /\ pending' = pending \cup {SessionRequest("me", NULL)}
              /\ UNCHANGED loading
    /\ UNCHANGED <<tableVars, token, teacher>>

\* the mount effect's then, catch and finally
MeDone(r) ==
    /\ r \in pending /\ r.kind = "me"
    /\ IF MeAnswer(r).ok
         THEN /\ teacher' = MeAnswer(r).user
              /\ UNCHANGED token
         ELSE /\ token' = NULL
              /\ teacher' = NULL
    /\ loading' = FALSE
    /\ pending' = pending \ {r}
    /\ UNCHANGED tableVars

\* the tab becomes hidden
handleVisibilityChange ==
    /\ token # NULL
    /\ token' = NULL
    /\ teacher' = NULL
    /\ UNCHANGED <<tableVars, pending, loading>>

\* login and register up to the await
login(who) ==
    /\ pending' = pending \cup {SessionRequest("login", who)}
    /\ UNCHANGED <<tableVars, sessionVars>>

register(who) ==
    /\ pending' = pending \cup {SessionRequest("register", who)}
    /\ UNCHANGED <<tableVars, sessionVars>>

\* login and register after the await; a refused request throws before
\* setToken
AuthDone(r) ==
    /\ r \in pending /\ r.kind \in {"login", "register"}
    /\ IF AuthAnswer(r).ok
         THEN /\ token' = AuthAnswer(r).token
              /\ teacher' = AuthAnswer(r).teacher
         ELSE UNCHANGED <<token, teacher>>
    /\ pending' = pending \ {r}
    /\ UNCHANGED <<tableVars, loading>>

logout ==
    /\ token' = NULL
    /\ teacher' = NULL
    /\ UNCHANGED <<tableVars, pending, loading>>

\* refreshTeacher up to the await
refreshTeacher ==
    /\ pending' = pending \cup {SessionRequest("refreshTeacher", NULL)}
    /\ UNCHANGED <<tableVars, sessionVars>>

\* refreshTeacher after the await; a refused request throws before setTeacher
refreshTeacherDone(r) ==
    /\ r \in pending /\ r.kind = "refreshTeacher"
    /\ IF MeAnswer(r).ok
         THEN teacher' = MeAnswer(r).user
         ELSE UNCHANGED teacher
    /\ pending' = pending \ {r}
    /\ UNCHANGED <<tableVars, token, loading>>

\* the sign-in page is shown while teacher is null
AuthPageShown == teacher = NULL
\* the pages behind Protected are shown once loading is over and teacher is set
ProtectedShown == ~loading /\ teacher # NULL

\* credentials and accounts: of each teacher, and refused ones
WhoInputs == Teachers \cup {NULL}

\* React runs the mount effect right after the first render, before any event
\* or response is handled
NextAuth ==
    \/ Reload
    \/ Mount
    \/ /\ ~MountDue
       /\ \E r \in pending : MeDone(r)
    \/ /\ ~MountDue
       /\ handleVisibilityChange
    \/ /\ ~MountDue /\ AuthPageShown /\ PendingRoom
       /\ \E who \in WhoInputs : login(who)
    \/ /\ ~MountDue /\ AuthPageShown /\ PendingRoom
       /\ \E who \in WhoInputs : register(who)
    \/ /\ ~MountDue
       /\ \E r \in pending : AuthDone(r)
    \/ /\ ProtectedShown
       /\ logout
    \/ /\ ProtectedShown /\ PendingRoom
       /\ refreshTeacher
    \/ /\ ~MountDue
       /\ \E r \in pending : refreshTeacherDone(r)

SpecAuth == Init /\ [][NextAuth]_vars

\* C30: whenever teacher is non-null a token is stored, also after a request
\* that was in flight when logout or a hidden tab cleared both has completed.
C30_TeacherOnlyWithToken ==
    teacher # NULL => token # NULL

====
